---------------------------- MODULE Spec2Model ----------------------------
(***************************************************************************)
(* Model of the static site composition engine of go-gh-page:             *)
(*   pkg/utils      (path mapping, link rewriting, navigation sort)        *)
(*   pkg/generator  (GenerateSite, generateDocPage, processImageLinks)     *)
(*                                                                         *)
(* Go strings are modelled as sequences of one-character strings, so that  *)
(* prefix/suffix tests, path cleaning and the two regular expressions are  *)
(* computed on the bytes, as the code computes them.                       *)
(***************************************************************************)
EXTENDS Integers, Sequences, FiniteSets, TLC

(***************************************************************************)
(* Bytes and the package "strings"                                         *)
(***************************************************************************)

\* The printable ASCII characters 32..126 in byte order (the entry for byte 96
\* is a placeholder: no modelled text holds a backtick).
Printable ==
  << " ", "!", "\"", "#", "$", "%", "&", "'", "(", ")", "*", "+", ",", "-", ".", "/",
     "0", "1", "2", "3", "4", "5", "6", "7", "8", "9", ":", ";", "<", "=", ">", "?",
     "@", "A", "B", "C", "D", "E", "F", "G", "H", "I", "J", "K", "L", "M", "N", "O",
     "P", "Q", "R", "S", "T", "U", "V", "W", "X", "Y", "Z", "[", "\\", "]", "^", "_",
     "(backtick)", "a", "b", "c", "d", "e", "f", "g", "h", "i", "j", "k", "l", "m", "n", "o",
     "p", "q", "r", "s", "t", "u", "v", "w", "x", "y", "z", "{", "|", "}", "~" >>

NL == "\n"

\* The byte value of a character (newline is 10, tab is 9).
Ord(c) ==
  IF c = NL THEN 10
  ELSE IF c = "\t" THEN 9
  ELSE 31 + (CHOOSE i \in 1..Len(Printable) : Printable[i] = c)

Chr(n) == Printable[n - 31]

IsUpper(c) == Ord(c) >= 65 /\ Ord(c) <= 90
IsLower(c) == Ord(c) >= 97 /\ Ord(c) <= 122

LowerChar(c) == IF IsUpper(c) THEN Chr(Ord(c) + 32) ELSE c
UpperChar(c) == IF IsLower(c) THEN Chr(Ord(c) - 32) ELSE c

\* strings.ToLower / strings.ToUpper on ASCII text
ToLower(s) == [i \in 1..Len(s) |-> LowerChar(s[i])]
ToUpper(s) == [i \in 1..Len(s) |-> UpperChar(s[i])]

\* s[from:] with a 1-based first index
Drop(s, n) == SubSeq(s, n + 1, Len(s))
Take(s, n) == SubSeq(s, 1, n)

HasPrefix(s, p) == Len(s) >= Len(p) /\ Take(s, Len(p)) = p
HasSuffix(s, p) == Len(s) >= Len(p) /\ Drop(s, Len(s) - Len(p)) = p

TrimPrefix(s, p) == IF HasPrefix(s, p) THEN Drop(s, Len(p)) ELSE s
TrimSuffix(s, p) == IF HasSuffix(s, p) THEN Take(s, Len(s) - Len(p)) ELSE s

\* The first position >= from holding the character c, or 0 when there is none.
IndexFrom(s, c, from) ==
  LET hits == {i \in from..Len(s) : s[i] = c}
  IN IF hits = {} THEN 0 ELSE CHOOSE i \in hits : \A j \in hits : i <= j

\* The last position holding c, or 0.
LastIndex(s, c) ==
  LET hits == {i \in 1..Len(s) : s[i] = c}
  IN IF hits = {} THEN 0 ELSE CHOOSE i \in hits : \A j \in hits : i >= j

\* The operator < of Go on strings: byte-wise lexicographic order.
RECURSIVE StrLess(_, _)
StrLess(a, b) ==
  IF b = <<>> THEN FALSE
  ELSE IF a = <<>> THEN TRUE
  ELSE IF Ord(a[1]) # Ord(b[1]) THEN Ord(a[1]) < Ord(b[1])
  ELSE StrLess(Tail(a), Tail(b))

StrGreater(a, b) == StrLess(b, a)

\* strings.ReplaceAll(s, old, new) for a one-byte old and new
ReplaceChar(s, old, new) == [i \in 1..Len(s) |-> IF s[i] = old THEN new ELSE s[i]]

RECURSIVE Concat(_)
Concat(ss) == IF ss = <<>> THEN <<>> ELSE Head(ss) \o Concat(Tail(ss))

\* strings.Join(parts, sep)
RECURSIVE JoinWith(_, _)
JoinWith(parts, sep) ==
  IF parts = <<>> THEN <<>>
  ELSE IF Len(parts) = 1 THEN parts[1]
  ELSE parts[1] \o sep \o JoinWith(Tail(parts), sep)

\* The pieces of s between occurrences of the byte sep (strings.Split).
RECURSIVE SplitOn(_, _)
SplitOn(s, sep) ==
  LET i == IndexFrom(s, sep, 1)
  IN IF i = 0 THEN << s >>
     ELSE << Take(s, i - 1) >> \o SplitOn(Drop(s, i), sep)

IsSpace(c) == c \in {" ", "\t", NL, "\r"}

\* strings.Fields: the maximal runs of non-space bytes
RECURSIVE Fields(_)
Fields(s) ==
  IF s = <<>> THEN <<>>
  ELSE IF IsSpace(s[1]) THEN Fields(Tail(s))
  ELSE LET ends == {i \in 1..Len(s) : IsSpace(s[i])}
           e == IF ends = {} THEN Len(s) + 1
                ELSE CHOOSE i \in ends : \A j \in ends : i <= j
       IN << Take(s, e - 1) >> \o Fields(Drop(s, e - 1))

(***************************************************************************)
(* The package "path/filepath" (Unix separators)                           *)
(***************************************************************************)

Slash == << "/" >>
Dot == << "." >>
DotDot == << ".", "." >>

\* The stack of path elements Clean keeps while scanning the elements.
RECURSIVE CleanElems(_, _, _)
CleanElems(elems, stack, rooted) ==
  IF elems = <<>> THEN stack
  ELSE LET e == Head(elems)
           rest == Tail(elems)
       IN IF e = <<>> \/ e = Dot THEN CleanElems(rest, stack, rooted)
          ELSE IF e = DotDot
            THEN IF stack # <<>> /\ stack[Len(stack)] # DotDot
                   THEN CleanElems(rest, Take(stack, Len(stack) - 1), rooted)
                 ELSE IF rooted THEN CleanElems(rest, stack, rooted)
                 ELSE CleanElems(rest, Append(stack, e), rooted)
          ELSE CleanElems(rest, Append(stack, e), rooted)

\* filepath.Clean
Clean(path) ==
  IF path = <<>> THEN Dot
  ELSE LET rooted == path[1] = "/"
           out == JoinWith(CleanElems(SplitOn(path, "/"), <<>>, rooted), Slash)
       IN IF rooted THEN Slash \o out
          ELSE IF out = <<>> THEN Dot ELSE out

\* filepath.Join: empty elements are ignored, the rest joined and cleaned
Join(elems) ==
  LET kept == SelectSeq(elems, LAMBDA e : e # <<>>)
  IN IF kept = <<>> THEN <<>> ELSE Clean(JoinWith(kept, Slash))

RECURSIVE StripTrailingSlashes(_)
StripTrailingSlashes(p) ==
  IF p # <<>> /\ p[Len(p)] = "/" THEN StripTrailingSlashes(Take(p, Len(p) - 1)) ELSE p

\* filepath.Base
Base(path) ==
  IF path = <<>> THEN Dot
  ELSE LET p == StripTrailingSlashes(path)
       IN IF p = <<>> THEN Slash
          ELSE Drop(p, LastIndex(p, "/"))

\* filepath.Dir
Dir(path) == Clean(Take(path, LastIndex(path, "/")))

\* filepath.Ext: the suffix beginning at the final dot of the final element
Ext(path) ==
  LET d == LastIndex(path, ".")
  IN IF d > LastIndex(path, "/") THEN Drop(path, d - 1) ELSE <<>>

(***************************************************************************)
(* Literals of the code                                                    *)
(***************************************************************************)

HtmlExt == << ".", "h", "t", "m", "l" >>                     \* ".html"
DocsDir == << "d", "o", "c", "s" >>                          \* "docs"
Http == << "h", "t", "t", "p" >>                             \* "http"
Hash == << "#" >>                                            \* "#"
DotSlash == << ".", "/" >>                                   \* "./"
UpDir == << ".", ".", "/" >>                                 \* "../"
UpImages == << ".", ".", "/", "i", "m", "a", "g", "e", "s", "/" >>   \* "../images/"
ReadmeDot == << "r", "e", "a", "d", "m", "e", "." >>         \* "readme."

\* ".jpg", ".jpeg", ".png", ".gif", ".svg", ".webp"
ImageExtensions ==
  << << ".", "j", "p", "g" >>, << ".", "j", "p", "e", "g" >>, << ".", "p", "n", "g" >>,
     << ".", "g", "i", "f" >>, << ".", "s", "v", "g" >>, << ".", "w", "e", "b", "p" >> >>

\* ".md", ".markdown", ".mdown", ".mkdn"
MarkdownExtensions ==
  << << ".", "m", "d" >>, << ".", "m", "a", "r", "k", "d", "o", "w", "n" >>,
     << ".", "m", "d", "o", "w", "n" >>, << ".", "m", "k", "d", "n" >> >>

(***************************************************************************)
(* pkg/utils                                                               *)
(***************************************************************************)

\* A variant of GetOutputPath that drops the source directory.
GetOutputPathFlat(path, baseDir) ==
  Join(<< baseDir, TrimSuffix(Base(path), Ext(Base(path))) \o HtmlExt >>)

\* A variant of GetOutputPath that strips the first extension, not the last.
GetOutputPathFirstDot(path, baseDir) ==
  LET b == Base(path)
      d == IndexFrom(b, ".", 1)
      stem == IF d = 0 THEN b ELSE Take(b, d - 1)
  IN IF Dir(path) = Dot THEN Join(<< baseDir, stem \o HtmlExt >>)
     ELSE Join(<< baseDir, Dir(path), stem \o HtmlExt >>)

\* GetOutputPath converts a markdown file path to its HTML output path.
GetOutputPath(path, baseDir) ==
  LET dir == Dir(path)
      baseName == TrimSuffix(Base(path), Ext(Base(path))) \o HtmlExt
  IN IF dir = Dot THEN Join(<< baseDir, baseName >>)
     ELSE Join(<< baseDir, dir, baseName >>)

\* The end of the line that holds position p: the position of the next newline,
\* or one past the text.
LineEnd(s, p) ==
  LET n == IndexFrom(s, NL, p) IN IF n = 0 THEN Len(s) + 1 ELSE n

\* The length of the run of white space starting at position p.
RECURSIVE SpaceRun(_, _)
SpaceRun(s, p) == IF p <= Len(s) /\ IsSpace(s[p]) THEN 1 + SpaceRun(s, p + 1) ELSE 0

\* The match of (?m)^#\s+(.+)$ that starts at position i, as the text of its
\* group, or the empty text when there is no match at i. \s+ is greedy and
\* gives back white space until one byte that is no newline is left for (.+).
HeadingAt(s, i) ==
  LET atLineStart == i = 1 \/ s[i - 1] = NL
      w == SpaceRun(s, i + 1)
      ks == {k \in 1..w : i + k + 1 <= Len(s) /\ s[i + k + 1] # NL}
  IN IF ~(atLineStart /\ s[i] = "#") \/ ks = {} THEN <<>>
     ELSE LET k == CHOOSE x \in ks : \A y \in ks : x >= y
              p == i + k + 1
          IN SubSeq(s, p, LineEnd(s, p) - 1)

\* GetTitleFromMarkdown extracts the first heading from markdown content.
GetTitleFromMarkdown(content) ==
  LET hits == {i \in 1..Len(content) : HeadingAt(content, i) # <<>>}
  IN IF hits = {} THEN <<>>
     ELSE HeadingAt(content, CHOOSE i \in hits : \A j \in hits : i <= j)

\* PrettifyFilename converts a filename to a more readable title.
PrettifyFilename(filename) ==
  LET name == TrimSuffix(filename, Ext(filename))
      spaced == ReplaceChar(ReplaceChar(name, "-", " "), "_", " ")
      words == Fields(spaced)
      capped == [i \in 1..Len(words) |-> << UpperChar(words[i][1]) >> \o Tail(words[i])]
  IN JoinWith(capped, << " " >>)

\* isImageLink checks if a link points to an image.
isImageLink(link) ==
  \E k \in 1..Len(ImageExtensions) : HasSuffix(ToLower(link), ImageExtensions[k])

\* A variant of isMarkdownLink that compares the extension case-sensitively.
isMarkdownLinkCaseSensitive(link) ==
  \E k \in 1..Len(MarkdownExtensions) : HasSuffix(link, MarkdownExtensions[k])

\* isMarkdownLink checks if a link points to a markdown file.
isMarkdownLink(link) ==
  \E k \in 1..Len(MarkdownExtensions) : HasSuffix(ToLower(link), MarkdownExtensions[k])

NoMatch == [ok |-> FALSE, text |-> <<>>, target |-> <<>>, last |-> 0]

\* The match of \[([^\]]+)\]\(([^)]+)\) that starts at position i: the text runs
\* to the first "]", which "(" must follow, and the target runs to the first ")".
LinkMatchAt(s, i) ==
  IF i > Len(s) \/ s[i] # "[" THEN NoMatch
  ELSE LET j == IndexFrom(s, "]", i + 1)
       IN IF j <= i + 1 \/ j + 1 > Len(s) \/ s[j + 1] # "(" THEN NoMatch
          ELSE LET k == IndexFrom(s, ")", j + 2)
               IN IF k <= j + 2 THEN NoMatch
                  ELSE [ok |-> TRUE, text |-> SubSeq(s, i + 1, j - 1),
                        target |-> SubSeq(s, j + 2, k - 1), last |-> k]

\* The match of !\[([^\]]*)\]\(([^)]+)\) that starts at position i (the regular
\* expression of GetImageLinkRegex): the alt text may be empty.
ImageMatchAt(s, i) ==
  IF i + 1 > Len(s) \/ s[i] # "!" \/ s[i + 1] # "[" THEN NoMatch
  ELSE LET j == IndexFrom(s, "]", i + 2)
       IN IF j = 0 \/ j + 1 > Len(s) \/ s[j + 1] # "(" THEN NoMatch
          ELSE LET k == IndexFrom(s, ")", j + 2)
               IN IF k <= j + 2 THEN NoMatch
                  ELSE [ok |-> TRUE, text |-> SubSeq(s, i + 2, j - 1),
                        target |-> SubSeq(s, j + 2, k - 1), last |-> k]

\* "[" + linkText + "](" + target + ")"
LinkSyntax(linkText, target) == << "[" >> \o linkText \o << "]", "(" >> \o target \o << ")" >>

\* "![" + altText + "](" + target + ")"
ImageSyntax(altText, target) == << "!" >> \o LinkSyntax(altText, target)

\* A variant of ResolveLinkPath that joins a rooted target with the directory too.
ResolveLinkPathJoinRooted(linkTarget, baseDir) ==
  LET stripped == TrimPrefix(TrimPrefix(linkTarget, Slash), DotSlash)
  IN IF baseDir # Dot THEN Join(<< baseDir, stripped >>) ELSE stripped

\* A variant of ResolveLinkPath that joins with the parent of the directory.
ResolveLinkPathParent(linkTarget, baseDir) ==
  IF ~HasPrefix(linkTarget, Slash)
    THEN LET stripped == TrimPrefix(linkTarget, DotSlash)
         IN IF baseDir # Dot /\ Dir(baseDir) # Dot
              THEN Join(<< Dir(baseDir), stripped >>) ELSE stripped
  ELSE Drop(linkTarget, 1)

\* The resolution of a link target against the directory of the document that
\* holds it (the block "If the link is relative, resolve it").
ResolveLinkPath(linkTarget, baseDir) ==
  IF ~HasPrefix(linkTarget, Slash)
    THEN LET stripped == IF HasPrefix(linkTarget, DotSlash) THEN Drop(linkTarget, 2)
                         ELSE linkTarget
         IN IF baseDir # Dot THEN Join(<< baseDir, stripped >>) ELSE stripped
  ELSE Drop(linkTarget, 1)

\* A variant of RewriteLink without the test for absolute URLs and anchors.
RewriteLinkNoSkip(match, linkText, linkTarget, baseDir) ==
  IF isImageLink(linkTarget) THEN match
  ELSE IF isMarkdownLink(linkTarget)
    THEN LinkSyntax(linkText,
           UpDir \o GetOutputPath(ResolveLinkPath(linkTarget, baseDir), DocsDir))
  ELSE match

\* The replacement ProcessRelativeLinks computes for one match of the link
\* pattern (the function passed to ReplaceAllStringFunc).
RewriteLink(match, linkText, linkTarget, baseDir) ==
  IF HasPrefix(linkTarget, Http) \/ HasPrefix(linkTarget, Hash) THEN match
  ELSE IF isImageLink(linkTarget) THEN match
  ELSE IF isMarkdownLink(linkTarget)
    THEN LET idx == IndexFrom(linkTarget, "#", 1)
             anchor == IF idx > 0 THEN Drop(linkTarget, idx - 1) ELSE <<>>
             path == IF idx > 0 THEN Take(linkTarget, idx - 1) ELSE linkTarget
             htmlPath == UpDir \o GetOutputPath(ResolveLinkPath(path, baseDir), DocsDir)
         IN LinkSyntax(linkText, htmlPath \o anchor)
  ELSE match

\* ReplaceAllStringFunc over the link pattern, scanning from position i: the
\* leftmost match is replaced and the scan resumes behind it.
RECURSIVE ReplaceLinksFrom(_, _, _)
ReplaceLinksFrom(s, i, baseDir) ==
  IF i > Len(s) THEN <<>>
  ELSE LET m == LinkMatchAt(s, i)
       IN IF m.ok
            THEN RewriteLink(SubSeq(s, i, m.last), m.text, m.target, baseDir)
                 \o ReplaceLinksFrom(s, m.last + 1, baseDir)
          ELSE << s[i] >> \o ReplaceLinksFrom(s, i + 1, baseDir)

\* ProcessRelativeLinks handles relative links in markdown content (its owner
\* and repo parameters are not read by the code).
ProcessRelativeLinks(content, filePath) == ReplaceLinksFrom(content, 1, Dir(filePath))

\* pages[i], pages[j] = pages[j], pages[i]
Swap(pages, i, j) == [pages EXCEPT ![i] = pages[j], ![j] = pages[i]]

\* The two nested loops of SortDocPagesByTitle, at the indices i < j (1-based).
RECURSIVE SortLoop(_, _, _)
SortLoop(pages, i, j) ==
  IF i > Len(pages) THEN pages
  ELSE IF j > Len(pages) THEN SortLoop(pages, i + 1, i + 2)
  ELSE IF StrGreater(pages[i].Title, pages[j].Title)
    THEN SortLoop(Swap(pages, i, j), i, j + 1)
  ELSE SortLoop(pages, i, j + 1)

\* A variant of SortDocPagesByTitle that makes one pass of adjacent exchanges.
RECURSIVE OnePass(_, _)
OnePass(pages, i) ==
  IF i + 1 > Len(pages) THEN pages
  ELSE IF StrGreater(pages[i].Title, pages[i + 1].Title)
    THEN OnePass(Swap(pages, i, i + 1), i + 1)
  ELSE OnePass(pages, i + 1)

SortDocPagesOnePass(pages) == OnePass(pages, 1)

\* SortDocPagesByTitle sorts doc pages by title.
SortDocPagesByTitle(pages) == SortLoop(pages, 1, 2)

(***************************************************************************)
(* pkg/generator: the pure helpers                                         *)
(***************************************************************************)

\* isReadmeFile checks if a file is a README (the generator's version).
isReadmeFile(filename) == HasPrefix(ToLower(filename), ReadmeDot)

\* A variant of RewriteImage that keeps the directory of the resolved path.
RewriteImageKeepDir(match, altText, imagePath, baseDir) ==
  IF HasPrefix(imagePath, Http) THEN match
  ELSE ImageSyntax(altText, UpImages \o ResolveLinkPath(imagePath, baseDir))

\* The replacement processImageLinks computes for one match of the image
\* pattern.
RewriteImage(match, altText, imagePath, baseDir) ==
  IF HasPrefix(imagePath, Http) THEN match
  ELSE LET rooted == IF ~HasPrefix(imagePath, Slash)
                       THEN LET stripped == IF HasPrefix(imagePath, DotSlash)
                                              THEN Drop(imagePath, 2) ELSE imagePath
                            IN IF baseDir # Dot THEN Join(<< baseDir, stripped >>)
                               ELSE stripped
                     ELSE TrimPrefix(imagePath, Slash)
       IN ImageSyntax(altText, UpImages \o Base(rooted))

RECURSIVE ReplaceImagesFrom(_, _, _)
ReplaceImagesFrom(s, i, baseDir) ==
  IF i > Len(s) THEN <<>>
  ELSE LET m == ImageMatchAt(s, i)
       IN IF m.ok
            THEN RewriteImage(SubSeq(s, i, m.last), m.text, m.target, baseDir)
                 \o ReplaceImagesFrom(s, m.last + 1, baseDir)
          ELSE << s[i] >> \o ReplaceImagesFrom(s, i + 1, baseDir)

\* processImageLinks updates image links to point to our local images.
processImageLinks(content, filePath) == ReplaceImagesFrom(content, 1, Dir(filePath))

(***************************************************************************)
(* Inputs of the checks of the pure functions                              *)
(***************************************************************************)

\* Path elements, file stems and extensions of the drawn inputs.
S_a == << "a" >>
S_b == << "b" >>
S_c == << "c" >>
S_d == << "d" >>
S_docs == << "d", "o", "c", "s" >>
S_sub == << "s", "u", "b" >>
S_deep == << "d", "e", "e", "p" >>
S_er == << "e", "r" >>
S_intro == << "i", "n", "t", "r", "o" >>
S_a_b == << "a", ".", "b" >>
S_README == << "R", "E", "A", "D", "M", "E" >>
S_notes == << "n", "o", "t", "e", "s" >>
S_readme == << "r", "e", "a", "d", "m", "e" >>
S_page == << "p", "a", "g", "e" >>
S_doc == << "d", "o", "c" >>
S_x == << "x" >>
S_guide == << "g", "u", "i", "d", "e" >>
S_assets == << "a", "s", "s", "e", "t", "s" >>
E_md == << ".", "m", "d" >>
E_markdown == << ".", "m", "a", "r", "k", "d", "o", "w", "n" >>
E_mdown == << ".", "m", "d", "o", "w", "n" >>
E_mkdn == << ".", "m", "k", "d", "n" >>
E_MD == << ".", "M", "D" >>
E_png == << ".", "p", "n", "g" >>
E_JPG == << ".", "J", "P", "G" >>
E_jpeg == << ".", "j", "p", "e", "g" >>
E_gif == << ".", "g", "i", "f" >>
E_svg == << ".", "s", "v", "g" >>
E_webp == << ".", "w", "e", "b", "p" >>
E_txt == << ".", "t", "x", "t" >>

\* The deepest directory nesting of the document paths that are drawn.
MaxDepth == 2

\* Directory chains: the directories drawn are their prefixes up to MaxDepth.
DirChains ==
  { << S_a, S_b, S_c, S_d >>,                  \* a/b/c/d
    << S_docs, S_sub, S_deep, S_er >> }        \* docs/sub/deep/er

\* Directories as sequences of elements; <<>> is the snapshot root.
SourceDirs == {SubSeq(ch, 1, k) : ch \in DirChains, k \in 0..MaxDepth}

\* The text of a path from its directory elements and its file name.
PathOf(dirElems, fileName) == JoinWith(Append(dirElems, fileName), Slash)

SourceStems == { S_intro, S_a_b, S_README, S_notes }   \* intro, a.b, README, notes
\* .md, .markdown, .MD, none (drawn only after a stem that holds no dot, so
\* that the extension drawn is the last extension of the file name)
SourceExts == { E_md, E_markdown, E_MD, <<>> }

\* File names of the documents that hold the links: intro.md, readme.md,
\* page.md, doc.md.
DocNames == { S_intro \o E_md, S_readme \o E_md, S_page \o E_md, S_doc \o E_md }

MarkdownExts == { E_md, E_markdown, E_mdown, E_mkdn, E_MD }
ImageExts == { E_png, E_JPG, E_jpeg, E_gif, E_svg, E_webp }
OtherExts == { E_txt, <<>> }

P_http == << "h", "t", "t", "p", ":", "/", "/", "e", ".", "c", "o", "m", "/" >>
P_https == << "h", "t", "t", "p", "s", ":", "/", "/", "e", ".", "c", "o", "m", "/" >>
ExternalPrefixes == { P_http, P_https }
RelativePrefixes == { <<>>, DotSlash, UpDir, UpDir \o UpDir }
AllPrefixes == RelativePrefixes \cup { Slash, Hash } \cup ExternalPrefixes

A_setup == << "#", "s", "e", "t", "u", "p" >>
A_a_md == << "#", "a", ".", "m", "d" >>

\* Link targets, kept in pieces: prefix, sub-directory, stem, extension, anchor.
Target(prefix, sub, stem, ext, anchor) ==
  [prefix |-> prefix, sub |-> sub, stem |-> stem, ext |-> ext, anchor |-> anchor]

TargetInputs ==
  { Target(p, <<>>, S_x, e, <<>>) :
      p \in AllPrefixes, e \in MarkdownExts \cup ImageExts \cup OtherExts }
  \cup
  { Target(p, S_assets \o Slash, S_d, e, <<>>) :
      p \in { <<>>, DotSlash, UpDir, Slash }, e \in { E_md, E_png, E_txt } }
  \cup
  { Target(p, <<>>, S_guide, e, a) :
      p \in { <<>>, DotSlash, UpDir, Slash, P_http },
      e \in { E_md, E_MD, E_png, E_txt }, a \in { A_setup, A_a_md } }

\* The text of a target: what stands between the parentheses.
TargetText(t) == t.prefix \o t.sub \o t.stem \o t.ext \o t.anchor

T_Guide == << "G", "u", "i", "d", "e" >>
T_diagram == << "d", "i", "a", "g", "r", "a", "m" >>
T_See == << "S", "e", "e", " " >>
T_now == << " ", "n", "o", "w", "." >>

\* The occurrence drawn: a link [Guide](target), an embed ![diagram](target), or
\* an embed with an empty alt text.
Forms ==
  { [embed |-> FALSE, text |-> T_Guide], [embed |-> TRUE, text |-> T_diagram],
    [embed |-> TRUE, text |-> <<>>] }

Occurrence(form, targetText) ==
  IF form.embed THEN ImageSyntax(form.text, targetText)
  ELSE LinkSyntax(form.text, targetText)

\* The document text drawn: the occurrence inside a sentence.
Document(form, targetText) == T_See \o Occurrence(form, targetText) \o T_now

NoInput == [kind |-> "none"]

(***************************************************************************)
(* State                                                                   *)
(***************************************************************************)

VARIABLES
  inp,        \* the pieces the inputs of a call were built from
  srcPath,    \* GetOutputPath: the argument path
  outPath,    \* GetOutputPath: the result
  filePath,   \* the rewriting passes: the path of the document
  content,    \* the rewriting passes: the text of the document
  linked,     \* the result of ProcessRelativeLinks(content, filePath)
  imaged,     \* the result of processImageLinks(content, filePath)
  processed,  \* the text generateDocPage renders: both passes in turn
  hpc,        \* the position of the call: "input", or the function that returned
  repoData,       \* Generator.repoData: the snapshot
  pc,             \* the position of GenerateSite
  templateCache,  \* Generator.templateCache: the names of the parsed templates
  imagesLeft,     \* the keys of ImageFiles the copy loop has not visited
  navLeft,        \* the keys of MarkdownFiles the navigation loop has not visited
  pagesLeft,      \* the keys of MarkdownFiles the page loop has not visited
  docsPages,      \* the local docsPages of GenerateSite
  fs,             \* the files under the output directory: path -> what was written
  dirs,           \* the directories created under the output directory
  result,         \* the GenerationResult being filled
  err,            \* the error GenerateSite returned, or NoError
  gitData,           \* the repoData GetRepositoryData is filling
  contributors,      \* GetRepositoryData: the local map email -> Contributor
  contributorsLeft,  \* the keys of contributors the conversion loop has not visited
  walkLeft,          \* the files filepath.WalkDir has yet to visit, in its order
  gpc                \* the position of GetRepositoryData

hvars == << inp, srcPath, outPath, filePath, content, linked, imaged, processed, hpc >>

gvars == << repoData, pc, templateCache, imagesLeft, navLeft, pagesLeft, docsPages,
            fs, dirs, result, err >>

rvars == << gitData, contributors, contributorsLeft, walkLeft, gpc >>

vars == << hvars, gvars, rvars >>

Unset == << "(unset)" >>

NoError == "nil"

EmptyResult == [DocsCount |-> 0, ImagesCount |-> 0, SiteStructure |-> <<>>]

\* The nil *GenerationResult returned with an error.
NilResult == [nil |-> TRUE]

\* No generator is running: the state of the generator variables while the
\* pure functions are applied.
GeneratorIdle ==
  /\ repoData = [MarkdownFiles |-> <<>>, ImageFiles |-> <<>>,
                 ReadmePath |-> <<>>, ReadmeContent |-> <<>>]
  /\ pc = "idle"
  /\ templateCache = {}
  /\ imagesLeft = {} /\ navLeft = {} /\ pagesLeft = {}
  /\ docsPages = <<>>
  /\ fs = <<>> /\ dirs = {}
  /\ result = EmptyResult
  /\ err = NoError

\* No pure function is being applied: the state of the call variables while
\* GenerateSite runs.
CallsIdle ==
  /\ inp = NoInput
  /\ srcPath = Unset /\ outPath = Unset
  /\ filePath = Unset /\ content = Unset
  /\ linked = Unset /\ imaged = Unset /\ processed = Unset
  /\ hpc = "idle"

\* The repoData of GetRepositoryData before anything is filled in.
NewRepositoryData ==
  [ MarkdownFiles |-> <<>>, ImageFiles |-> <<>>, ReadmePath |-> <<>>,
    ReadmeContent |-> <<>>, Contributors |-> <<>>, CommitCount |-> 0,
    License |-> <<>> ]

\* GetRepositoryData is not running.
GitIdle ==
  /\ gitData = NewRepositoryData
  /\ contributors = <<>> /\ contributorsLeft = {}
  /\ walkLeft = <<>>
  /\ gpc = "idle"

(***************************************************************************)
(* GetOutputPath applied to drawn paths                                    *)
(***************************************************************************)

InitPath ==
  /\ \E d \in SourceDirs, st \in SourceStems, e \in SourceExts :
       /\ (e = <<>> => st # S_a_b)
       /\ inp = [kind |-> "path", dir |-> d, stem |-> st, ext |-> e]
       /\ srcPath = PathOf(d, st \o e)
  /\ outPath = Unset
  /\ filePath = Unset /\ content = Unset
  /\ linked = Unset /\ imaged = Unset /\ processed = Unset
  /\ hpc = "input"
  /\ GeneratorIdle
  /\ GitIdle

CallGetOutputPath ==
  /\ hpc = "input" /\ inp.kind = "path"
  /\ outPath' = GetOutputPath(srcPath, DocsDir)
  /\ hpc' = "GetOutputPath"
  /\ UNCHANGED << inp, srcPath, filePath, content, linked, imaged, processed, gvars, rvars >>

NextPath == CallGetOutputPath

SpecPath == InitPath /\ [][NextPath]_vars

(***************************************************************************)
(* The rewriting passes applied to drawn documents                         *)
(***************************************************************************)

InitRewrite ==
  /\ \E d \in SourceDirs, n \in DocNames, f \in Forms, t \in TargetInputs :
       /\ inp = [kind |-> "doc", dir |-> d, form |-> f, target |-> t]
       /\ filePath = PathOf(d, n)
       /\ content = Document(f, TargetText(t))
  /\ srcPath = Unset /\ outPath = Unset
  /\ linked = Unset /\ imaged = Unset /\ processed = Unset
  /\ hpc = "input"
  /\ GeneratorIdle
  /\ GitIdle

CallProcessRelativeLinks ==
  /\ hpc = "input" /\ inp.kind = "doc"
  /\ linked' = ProcessRelativeLinks(content, filePath)
  /\ hpc' = "ProcessRelativeLinks"
  /\ UNCHANGED << inp, srcPath, outPath, filePath, content, imaged, processed, gvars, rvars >>

CallProcessImageLinks ==
  /\ hpc = "input" /\ inp.kind = "doc"
  /\ imaged' = processImageLinks(content, filePath)
  /\ hpc' = "processImageLinks"
  /\ UNCHANGED << inp, srcPath, outPath, filePath, content, linked, processed, gvars, rvars >>

\* generateDocPage: the link pass, then the image pass on its result.
RewriteBoth(text, path) == processImageLinks(ProcessRelativeLinks(text, path), path)

CallRewriteBoth ==
  /\ hpc = "input" /\ inp.kind = "doc"
  /\ processed' = RewriteBoth(content, filePath)
  /\ hpc' = "generateDocPage"
  /\ UNCHANGED << inp, srcPath, outPath, filePath, content, linked, imaged, gvars, rvars >>

NextRewrite == CallProcessRelativeLinks \/ CallProcessImageLinks \/ CallRewriteBoth

SpecRewrite == InitRewrite /\ [][NextRewrite]_vars

(***************************************************************************)
(* The snapshots GenerateSite is run on                                    *)
(***************************************************************************)

\* The most documents and the most images of a snapshot.
MaxDocs == 3
MaxImages == 2

RepoOwner == << "o" >>
RepoName == << "r" >>
RepoFullName == RepoOwner \o Slash \o RepoName
RepoPath == << "/", "r", "e", "p", "o" >>

N_README_md == << "R", "E", "A", "D", "M", "E", ".", "m", "d" >>
N_a_markdown == << "a", ".", "m", "a", "r", "k", "d", "o", "w", "n" >>
N_a_md == << "a", ".", "m", "d" >>
N_docs_a_md == << "d", "o", "c", "s", "/", "a", ".", "m", "d" >>
N_docs_b_md == << "d", "o", "c", "s", "/", "b", ".", "m", "d" >>
N_guide_md == << "g", "u", "i", "d", "e", ".", "m", "d" >>
N_sub_README_md == << "s", "u", "b", "/", "R", "E", "A", "D", "M", "E", ".", "m", "d" >>

\* The markdown files a repository may hold, in the order filepath.WalkDir
\* visits them (lexical order within each directory).
DocUniverse ==
  << [path |-> N_README_md, content |-> << "#", " ", "H", "i", "\n", "\n", "W", "o", "r", "l", "d" >>],
     [path |-> N_a_markdown, content |-> << "#", " ", "G", "u", "i", "d", "e" >>],
     [path |-> N_a_md, content |-> << "#", " ", "a", "p", "p", "l", "e", "\n", "\n", "!", "[", "l", "]", "(", "i", "m", "g", "/", "l", "o", "g", "o", ".", "p", "n", "g", ")" >>],
     [path |-> N_docs_a_md, content |-> << "#", " ", "A", "\n", "\n", "[", "b", "]", "(", ".", "/", "b", ".", "m", "d", ")" >>],
     [path |-> N_docs_b_md, content |-> << "#", " ", "B" >>],
     [path |-> N_guide_md, content |-> << "[", "a", "]", "(", "a", ".", "m", "d", ")", " ", "a", "n", "d", " ", "[", "b", "]", "(", "d", "o", "c", "s", "/", "b", ".", "m", "d", ")" >>],
     [path |-> N_sub_README_md, content |-> << "#", " ", "S", "u", "b", "\n", "\n", "[", "u", "p", "]", "(", ".", ".", "/", "g", "u", "i", "d", "e", ".", "m", "d", ")" >>] >>

\* The image files a repository may hold: two of them share a file name.
ImageUniverse ==
  << << "a", "s", "s", "e", "t", "s", "/", "l", "o", "g", "o", ".", "p", "n", "g" >>, << "d", ".", "p", "n", "g" >>, << "i", "m", "g", "/", "l", "o", "g", "o", ".", "p", "n", "g" >> >>

DocIndexSets == {ds \in SUBSET (1..Len(DocUniverse)) : Cardinality(ds) <= MaxDocs}
ImageIndexSets == {ims \in SUBSET (1..Len(ImageUniverse)) : Cardinality(ims) <= MaxImages}

\* isMarkdownFile of package git
isMarkdownFile(filename) ==
  \E k \in 1..Len(MarkdownExtensions) : HasSuffix(ToLower(filename), MarkdownExtensions[k])

\* isReadmeFile of package git
gitIsReadmeFile(filename) ==
  HasPrefix(ToLower(filename), ReadmeDot) /\ isMarkdownFile(filename)

\* A variant of the designation in which the first README found stays.
DesignatedReadmeFirstOnly(readmePath, relativePath) ==
  IF gitIsReadmeFile(Base(relativePath)) /\ readmePath = <<>>
    THEN relativePath ELSE readmePath

\* repoData.ReadmePath when the walk has handled the markdown file at
\* relativePath: a README is designated when none is yet, or when it is
\* README.md of the root.
DesignatedReadme(readmePath, relativePath) ==
  IF gitIsReadmeFile(Base(relativePath))
     /\ (readmePath = <<>> \/ relativePath = N_README_md)
    THEN relativePath ELSE readmePath

\* The README the walk of GetRepositoryData designates, having visited the
\* files of ds up to index i: the first one found, replaced by README.md of
\* the root when that is found later.
RECURSIVE WalkReadme(_, _)
WalkReadme(ds, i) ==
  IF i = 0 THEN <<>>
  ELSE LET before == WalkReadme(ds, i - 1)
       IN IF i \in ds THEN DesignatedReadme(before, DocUniverse[i].path) ELSE before

ContentOf(path) ==
  (CHOOSE d \in {DocUniverse[i] : i \in 1..Len(DocUniverse)} : d.path = path).content

\* The RepositoryData that GetRepositoryData builds for the files chosen.
RepositoryData(ds, ims) ==
  LET readme == WalkReadme(ds, Len(DocUniverse))
  IN [ MarkdownFiles |-> [p \in {DocUniverse[i].path : i \in ds} |-> ContentOf(p)],
       ImageFiles |-> [p \in {ImageUniverse[i] : i \in ims} |-> Join(<< RepoPath, p >>)],
       ReadmePath |-> readme,
       ReadmeContent |-> IF readme = <<>> THEN <<>> ELSE ContentOf(readme) ]

(***************************************************************************)
(* GenerateSite                                                            *)
(***************************************************************************)

\* renderMarkdown is the markdown library: the HTML it renders is kept as the
\* text it was rendered from.
renderMarkdown(md) == [html |-> md]

N_index_html == << "i", "n", "d", "e", "x", ".", "h", "t", "m", "l" >>
N_style_css == << "s", "t", "y", "l", "e", ".", "c", "s", "s" >>
N_images == << "i", "m", "a", "g", "e", "s" >>

\* f with the value v at the key k.
Put(f, k, v) == [x \in DOMAIN f \cup {k} |-> IF x = k THEN v ELSE f[x]]

\* What a failed write may leave at the path: nothing new, or a truncated file.
Truncated == [kind |-> "truncated"]

\* A variant of Fail that records the error and lets the run go on.
FailAndGoOn(step) ==
  /\ err' = step
  /\ UNCHANGED << repoData, pc, templateCache, imagesLeft, navLeft, pagesLeft,
                  docsPages, dirs, result >>

\* return nil, fmt.Errorf(step): the run ends, no GenerationResult is returned.
Fail(step) ==
  /\ pc' = "failed"
  /\ err' = step
  /\ result' = NilResult
  /\ UNCHANGED << repoData, templateCache, imagesLeft, navLeft, pagesLeft, docsPages,
                  dirs >>

\* A failing os.WriteFile or os.Create for the path: the step fails and the
\* file is untouched or left truncated.
FailWrite(step, path) ==
  /\ Fail(step)
  /\ fs' \in {fs, Put(fs, path, Truncated)}

\* The files when a template has been executed straight into the file of the
\* page and failed part-way.
AfterFailedExecuteStreamed(files, path) == Put(files, path, Truncated)

\* The files when the execution of a template for the page at path has
\* failed: the template writes into a bytes.Buffer and the function returns
\* before os.WriteFile, so the files are as they were.
AfterFailedExecute(files, path) == files

InitGenerate ==
  /\ \E ds \in DocIndexSets, ims \in ImageIndexSets : repoData = RepositoryData(ds, ims)
  /\ pc = "mkdirDocs"
  /\ templateCache = {}
  /\ imagesLeft = {} /\ navLeft = {} /\ pagesLeft = {}
  /\ docsPages = <<>>
  /\ fs = <<>> /\ dirs = {}
  /\ result = EmptyResult
  /\ err = NoError
  /\ CallsIdle
  /\ GitIdle

\* os.MkdirAll(docsDir)
MkdirDocs ==
  /\ pc = "mkdirDocs"
  /\ \/ /\ dirs' = dirs \cup {DocsDir}
        /\ pc' = "writeStyle"
        /\ UNCHANGED << repoData, templateCache, imagesLeft, navLeft, pagesLeft,
                        docsPages, fs, result, err >>
     \/ Fail("failed to create docs directory") /\ UNCHANGED fs
  /\ UNCHANGED << hvars, rvars >>

\* GenerateRootStyle(g.outputDir)
WriteStyle ==
  /\ pc = "writeStyle"
  /\ \/ /\ fs' = Put(fs, N_style_css, [kind |-> "style"])
        /\ pc' = "mkdirImages"
        /\ UNCHANGED << repoData, templateCache, imagesLeft, navLeft, pagesLeft,
                        docsPages, dirs, result, err >>
     \/ FailWrite("failed to write style.css", N_style_css)
  /\ UNCHANGED << hvars, rvars >>

\* os.MkdirAll(imagesDir)
MkdirImages ==
  /\ pc = "mkdirImages"
  /\ \/ /\ dirs' = dirs \cup {N_images}
        /\ pc' = "parseTemplates"
        /\ UNCHANGED << repoData, templateCache, imagesLeft, navLeft, pagesLeft,
                        docsPages, fs, result, err >>
     \/ Fail("failed to create images directory") /\ UNCHANGED fs
  /\ UNCHANGED << hvars, rvars >>

\* g.parseTemplates(); the loop over ImageFiles starts behind it.
ParseTemplates ==
  /\ pc = "parseTemplates"
  /\ \/ /\ templateCache' = {"main", "doc"}
        /\ imagesLeft' = DOMAIN repoData.ImageFiles
        /\ pc' = "copyImages"
        /\ UNCHANGED << repoData, navLeft, pagesLeft, docsPages, fs, dirs, result, err >>
     \/ Fail("failed to parse templates") /\ UNCHANGED fs
  /\ UNCHANGED << hvars, rvars >>

\* A variant of copyFile that leaves a destination that is already there.
copyFileKeepExisting(files, src, dst) ==
  IF dst \in DOMAIN files THEN files ELSE Put(files, dst, [kind |-> "image", from |-> src])

\* The files when copyFile(src, dst) has returned nil: os.Create truncates dst
\* and io.Copy fills it with the content of src.
copyFile(files, src, dst) == Put(files, dst, [kind |-> "image", from |-> src])

\* One round of the loop over ImageFiles, for the key the map iteration yields.
CopyImage ==
  /\ pc = "copyImages"
  /\ \E relativePath \in imagesLeft :
       LET sourcePath == repoData.ImageFiles[relativePath]
           destPath == Join(<< N_images, Base(relativePath) >>)
       IN \/ /\ fs' = copyFile(fs, sourcePath, destPath)
             /\ result' = [result EXCEPT !.ImagesCount = @ + 1]
             /\ imagesLeft' = imagesLeft \ {relativePath}
             /\ UNCHANGED << repoData, pc, templateCache, navLeft, pagesLeft,
                             docsPages, dirs, err >>
          \/ FailWrite("failed to copy image", destPath)
  /\ UNCHANGED << hvars, rvars >>

\* A variant of CopyImagesDone that leaves the loop while images remain.
CopyImagesDoneEarly ==
  /\ pc = "copyImages"
  /\ navLeft' = DOMAIN repoData.MarkdownFiles
  /\ pc' = "buildNav"
  /\ UNCHANGED << repoData, templateCache, imagesLeft, pagesLeft, docsPages, fs, dirs,
                  result, err >>
  /\ UNCHANGED << hvars, rvars >>

\* The loop over ImageFiles ends; the loop that prepares the navigation starts.
CopyImagesDone ==
  /\ pc = "copyImages" /\ imagesLeft = {}
  /\ navLeft' = DOMAIN repoData.MarkdownFiles
  /\ pc' = "buildNav"
  /\ UNCHANGED << repoData, templateCache, imagesLeft, pagesLeft, docsPages, fs, dirs,
                  result, err >>
  /\ UNCHANGED << hvars, rvars >>

\* The title of a document: its first heading, or its prettified file name.
TitleOf(path, text) ==
  LET title == GetTitleFromMarkdown(text)
  IN IF title = <<>> THEN PrettifyFilename(Base(path)) ELSE title

DocPage(title, path) == [Title |-> title, Path |-> path, IsActive |-> FALSE]

\* One round of the navigation loop for a README: it is skipped.
NavSkipReadme ==
  /\ pc = "buildNav"
  /\ \E path \in navLeft :
       /\ isReadmeFile(Base(path))
       /\ navLeft' = navLeft \ {path}
  /\ UNCHANGED << repoData, pc, templateCache, imagesLeft, pagesLeft, docsPages, fs,
                  dirs, result, err >>
  /\ UNCHANGED << hvars, rvars >>

\* A variant of NavAppend that records the path of the markdown file under
\* docs/ in place of the output path.
NavAppendSourcePath ==
  /\ pc = "buildNav"
  /\ \E path \in navLeft :
       /\ ~isReadmeFile(Base(path))
       /\ docsPages' = Append(docsPages,
            DocPage(TitleOf(path, repoData.MarkdownFiles[path]),
                    Join(<< DocsDir, path >>)))
       /\ navLeft' = navLeft \ {path}
  /\ UNCHANGED << repoData, pc, templateCache, imagesLeft, pagesLeft, fs, dirs,
                  result, err >>
  /\ UNCHANGED << hvars, rvars >>

\* One round of the navigation loop for another document: its entry is appended.
NavAppend ==
  /\ pc = "buildNav"
  /\ \E path \in navLeft :
       /\ ~isReadmeFile(Base(path))
       /\ docsPages' = Append(docsPages,
            DocPage(TitleOf(path, repoData.MarkdownFiles[path]),
                    GetOutputPath(path, DocsDir)))
       /\ navLeft' = navLeft \ {path}
  /\ UNCHANGED << repoData, pc, templateCache, imagesLeft, pagesLeft, fs, dirs,
                  result, err >>
  /\ UNCHANGED << hvars, rvars >>

\* The navigation loop ends and utils.SortDocPagesByTitle(docsPages) runs.
SortNav ==
  /\ pc = "buildNav" /\ navLeft = {}
  /\ docsPages' = SortDocPagesByTitle(docsPages)
  /\ pc' = "mainPage"
  /\ UNCHANGED << repoData, templateCache, imagesLeft, navLeft, pagesLeft, fs, dirs,
                  result, err >>
  /\ UNCHANGED << hvars, rvars >>

\* What the main template is executed on.
MainPageData ==
  [ kind |-> "main",
    ReadmeHTML |-> renderMarkdown(repoData.ReadmeContent),
    DocsPages |-> docsPages,
    CurrentPage |-> N_index_html,
    PageTitle |-> RepoFullName ]

\* g.generateMainPage(docsPages); the loop over the documents starts behind it.
GenerateMainPage ==
  /\ pc = "mainPage"
  /\ \/ /\ fs' = Put(fs, N_index_html, MainPageData)
        /\ pagesLeft' = DOMAIN repoData.MarkdownFiles
        /\ pc' = "docPages"
        /\ UNCHANGED << repoData, templateCache, imagesLeft, navLeft, docsPages, dirs,
                        result, err >>
     \/ Fail("failed to execute main template")
        /\ fs' = AfterFailedExecute(fs, N_index_html)
     \/ FailWrite("failed to write index.html", N_index_html)
  /\ UNCHANGED << hvars, rvars >>

\* The copy of docsPages with the entries of the current page marked active.
MarkActive(pages, outputPath) ==
  [i \in 1..Len(pages) |->
     IF pages[i].Path = outputPath THEN [pages[i] EXCEPT !.IsActive = TRUE] ELSE pages[i]]

\* The slice the caller holds when generateDocPage has marked the current
\* page, had the marks been written through it.
DocsPagesAfterPageShared(pages, outputPath) == MarkActive(pages, outputPath)

\* The slice the caller holds when generateDocPage has marked the current
\* page: the marks go to the copy made by make and copy, and DocPage holds no
\* references, so the slice is as it was.
DocsPagesAfterPage(pages, outputPath) == pages

\* What the doc template is executed on for the document at path (source
\* records the document the page was generated for).
DocPageData(path, text, pages) ==
  [ kind |-> "doc",
    source |-> path,
    DocsPages |-> MarkActive(pages, GetOutputPath(path, DocsDir)),
    CurrentPage |-> GetOutputPath(path, DocsDir),
    PageTitle |-> TitleOf(path, text) \o << " ", "-", " " >> \o RepoFullName,
    PageContent |-> renderMarkdown(RewriteBoth(text, path)) ]

\* One round of the page loop for a README: it is skipped.
PageSkipReadme ==
  /\ pc = "docPages"
  /\ \E path \in pagesLeft :
       /\ isReadmeFile(Base(path))
       /\ pagesLeft' = pagesLeft \ {path}
  /\ UNCHANGED << repoData, pc, templateCache, imagesLeft, navLeft, docsPages, fs,
                  dirs, result, err >>
  /\ UNCHANGED << hvars, rvars >>

\* One round of the page loop for another document: g.generateDocPage(path,
\* content, docsPages), then result.DocsCount++.
GenerateDocPage ==
  /\ pc = "docPages"
  /\ \E path \in pagesLeft :
       /\ ~isReadmeFile(Base(path))
       /\ LET outputPath == GetOutputPath(path, DocsDir)
          IN \/ /\ dirs' = dirs \cup {Dir(outputPath)}
                /\ fs' = Put(fs, outputPath,
                             DocPageData(path, repoData.MarkdownFiles[path], docsPages))
                /\ result' = [result EXCEPT !.DocsCount = @ + 1]
                /\ pagesLeft' = pagesLeft \ {path}
                /\ docsPages' = DocsPagesAfterPage(docsPages, outputPath)
                /\ UNCHANGED << repoData, pc, templateCache, imagesLeft, navLeft, err >>
             \/ Fail("failed to execute doc template")
                /\ fs' = AfterFailedExecute(fs, outputPath)
             \/ Fail("failed to create directory") /\ UNCHANGED fs
             \/ /\ pc' = "failed"
                /\ err' = "failed to write"
                /\ dirs' = dirs \cup {Dir(outputPath)}
                /\ fs' \in {fs, Put(fs, outputPath, Truncated)}
                /\ result' = NilResult
                /\ UNCHANGED << repoData, templateCache, imagesLeft, navLeft,
                                pagesLeft, docsPages >>
  /\ UNCHANGED << hvars, rvars >>

\* A variant of the summary that reports images only from the second on.
SiteStructureFromSecondImage(pages, imagesCount) ==
  << [line |-> "root"], [line |-> "index.html"], [line |-> "docs/"] >>
  \o (IF Len(pages) > 0
        THEN [i \in 1..Len(pages) |-> [line |-> "page", name |-> Base(pages[i].Path),
                                       last |-> i = Len(pages)]]
      ELSE << [line |-> "(empty)"] >>)
  \o << [line |-> "images/"] >>
  \o (IF imagesCount > 1 THEN << [line |-> "files", count |-> imagesCount] >>
      ELSE << [line |-> "(empty)"] >>)

\* The lines of the site structure summary.
SiteStructure(pages, imagesCount) ==
  << [line |-> "root"], [line |-> "index.html"], [line |-> "docs/"] >>
  \o (IF Len(pages) > 0
        THEN [i \in 1..Len(pages) |-> [line |-> "page", name |-> Base(pages[i].Path),
                                       last |-> i = Len(pages)]]
      ELSE << [line |-> "(empty)"] >>)
  \o << [line |-> "images/"] >>
  \o (IF imagesCount > 0 THEN << [line |-> "files", count |-> imagesCount] >>
      ELSE << [line |-> "(empty)"] >>)

\* The page loop ends, the summary is written and the result returned.
Summarize ==
  /\ pc = "docPages" /\ pagesLeft = {}
  /\ result' = [result EXCEPT !.SiteStructure = SiteStructure(docsPages, result.ImagesCount)]
  /\ pc' = "done"
  /\ UNCHANGED << repoData, templateCache, imagesLeft, navLeft, pagesLeft, docsPages,
                  fs, dirs, err >>
  /\ UNCHANGED << hvars, rvars >>

Init == InitGenerate

Next ==
  \/ MkdirDocs \/ WriteStyle \/ MkdirImages \/ ParseTemplates
  \/ CopyImage \/ CopyImagesDone
  \/ NavSkipReadme \/ NavAppend \/ SortNav
  \/ GenerateMainPage
  \/ PageSkipReadme \/ GenerateDocPage
  \/ Summarize

Spec == Init /\ [][Next]_vars


(***************************************************************************)
(* GetRepositoryData: the contributors                                     *)
(***************************************************************************)

\* The most contributors GetRepositoryData keeps.
MaxContributors == 5

\* The most commits of a history.
MaxCommits == 8

\* The author emails of a history. Only equality of emails matters to the
\* code, so an email is named by its rank in order of first appearance in the
\* history; one more than MaxContributors makes the truncation happen.
Emails == 1..(MaxContributors + 1)

\* The Contributor made for an email that is not yet in the map.
Contributor(email) == [Email |-> email, Commits |-> 0]

InitContributors ==
  /\ gitData = NewRepositoryData
  /\ contributors = <<>> /\ contributorsLeft = {}
  /\ walkLeft = <<>>
  /\ gpc = "log"
  /\ GeneratorIdle
  /\ CallsIdle

\* repo.Head, repo.Log or the iteration fails: GetRepositoryData returns nil
\* and the error.
HistoryFails ==
  /\ gpc = "log"
  /\ gpc' = "failed"
  /\ UNCHANGED << gitData, contributors, contributorsLeft, walkLeft, hvars, gvars >>

\* One round of cIter.ForEach, for a commit of the author email.
ProcessCommit ==
  /\ gpc = "log" /\ gitData.CommitCount < MaxCommits
  /\ \E email \in Emails :
       /\ email <= Len(contributors) + 1
       /\ LET tracked == IF email \in DOMAIN contributors THEN contributors
                         ELSE Put(contributors, email, Contributor(email))
          IN contributors' = [tracked EXCEPT ![email].Commits = @ + 1]
  /\ gitData' = [gitData EXCEPT !.CommitCount = @ + 1]
  /\ UNCHANGED << contributorsLeft, walkLeft, gpc, hvars, gvars >>

\* The history ends; the loop over the contributors map starts.
HistoryEnds ==
  /\ gpc = "log"
  /\ contributorsLeft' = DOMAIN contributors
  /\ gpc' = "convert"
  /\ UNCHANGED << gitData, contributors, walkLeft, hvars, gvars >>

\* One round of the loop over the contributors map, for the key the map
\* iteration yields.
AppendContributor ==
  /\ gpc = "convert"
  /\ \E email \in contributorsLeft :
       /\ gitData' = [gitData EXCEPT !.Contributors = Append(@, contributors[email])]
       /\ contributorsLeft' = contributorsLeft \ {email}
  /\ UNCHANGED << contributors, walkLeft, gpc, hvars, gvars >>

\* The two nested loops of sortContributorsByCommits, at the indices i < j.
RECURSIVE SortContributorsLoop(_, _, _)
SortContributorsLoop(cs, i, j) ==
  IF i > Len(cs) THEN cs
  ELSE IF j > Len(cs) THEN SortContributorsLoop(cs, i + 1, i + 2)
  ELSE IF cs[i].Commits < cs[j].Commits
    THEN SortContributorsLoop(Swap(cs, i, j), i, j + 1)
  ELSE SortContributorsLoop(cs, i, j + 1)

\* A variant of sortContributorsByCommits that makes one pass of adjacent
\* exchanges.
RECURSIVE ContributorsOnePass(_, _)
ContributorsOnePass(cs, i) ==
  IF i + 1 > Len(cs) THEN cs
  ELSE IF cs[i].Commits < cs[i + 1].Commits
    THEN ContributorsOnePass(Swap(cs, i, i + 1), i + 1)
  ELSE ContributorsOnePass(cs, i + 1)

sortContributorsOnePass(cs) == ContributorsOnePass(cs, 1)

\* sortContributorsByCommits sorts contributors by commit count (descending).
sortContributorsByCommits(cs) == SortContributorsLoop(cs, 1, 2)

\* The loop over the map ends and sortContributorsByCommits runs.
SortContributors ==
  /\ gpc = "convert" /\ contributorsLeft = {}
  /\ gitData' = [gitData EXCEPT !.Contributors = sortContributorsByCommits(@)]
  /\ gpc' = "truncate"
  /\ UNCHANGED << contributors, contributorsLeft, walkLeft, hvars, gvars >>

\* repoData.Contributors[:5] when there are more than 5.
TopContributors(cs) ==
  IF Len(cs) > MaxContributors THEN Take(cs, MaxContributors) ELSE cs

\* The list is limited to the top 5; the walk of the repository starts behind.
TruncateContributors ==
  /\ gpc = "truncate"
  /\ gitData' = [gitData EXCEPT !.Contributors = TopContributors(@)]
  /\ gpc' = "walk"
  /\ UNCHANGED << contributors, contributorsLeft, walkLeft, hvars, gvars >>

NextContributors ==
  \/ HistoryFails \/ ProcessCommit \/ HistoryEnds
  \/ AppendContributor \/ SortContributors \/ TruncateContributors

SpecContributors == InitContributors /\ [][NextContributors]_vars

(***************************************************************************)
(* GetRepositoryData: the walk of the repository                           *)
(***************************************************************************)

N_README_markdown == << "R", "E", "A", "D", "M", "E", ".", "m", "a", "r", "k", "d", "o", "w", "n" >>
N_Docs_README_md == << "D", "o", "c", "s", "/", "R", "E", "A", "D", "M", "E", ".", "m", "d" >>
N_vendor_readme_md == << "v", "e", "n", "d", "o", "r", "/", "r", "e", "a", "d", "m", "e", ".", "m", "d" >>
N_LICENSE == << "L", "I", "C", "E", "N", "S", "E" >>

\* The entries a repository may hold, in the order filepath.WalkDir visits
\* them: the names of a directory in byte order, a directory before what it
\* holds. readme tells the markdown files named README.* in any case.
WalkUniverse ==
  << [path |-> << "D", "o", "c", "s" >>, dir |-> TRUE, readme |-> FALSE],
     [path |-> N_Docs_README_md, dir |-> FALSE, readme |-> TRUE],
     [path |-> N_LICENSE, dir |-> FALSE, readme |-> FALSE],
     [path |-> N_README_markdown, dir |-> FALSE, readme |-> TRUE],
     [path |-> N_README_md, dir |-> FALSE, readme |-> TRUE],
     [path |-> << "R", "E", "A", "D", "M", "E", ".", "t", "x", "t" >>, dir |-> FALSE, readme |-> FALSE],
     [path |-> N_a_md, dir |-> FALSE, readme |-> FALSE],
     [path |-> << "l", "o", "g", "o", ".", "p", "n", "g" >>, dir |-> FALSE, readme |-> FALSE],
     [path |-> << "s", "u", "b" >>, dir |-> TRUE, readme |-> FALSE],
     [path |-> N_sub_README_md, dir |-> FALSE, readme |-> TRUE],
     [path |-> << "v", "e", "n", "d", "o", "r" >>, dir |-> TRUE, readme |-> FALSE],
     [path |-> N_vendor_readme_md, dir |-> FALSE, readme |-> TRUE] >>

\* The entries of the universe that are files.
WalkFiles == {i \in 1..Len(WalkUniverse) : ~WalkUniverse[i].dir}

\* Entry i is in the tree that holds the files chosen: a file chosen, or a
\* directory above one.
InTree(i, chosen) ==
  IF WalkUniverse[i].dir
    THEN \E k \in chosen : HasPrefix(WalkUniverse[k].path, WalkUniverse[i].path \o Slash)
  ELSE i \in chosen

\* The entries of the tree that holds the files chosen, in walk order.
WalkOf(chosen) ==
  LET idx == SelectSeq([i \in 1..Len(WalkUniverse) |-> i], LAMBDA i : InTree(i, chosen))
  IN [k \in 1..Len(idx) |-> WalkUniverse[idx[k]]]

\* What os.ReadFile gives for a file of the universe: every file has a text
\* of its own.
FileContent(relativePath) == << "#", " " >> \o relativePath

\* The directories the walk does not enter.
SkippedDirs == { << ".", "g", "i", "t" >>, << "n", "o", "d", "e", "_", "m", "o", "d", "u", "l", "e", "s" >>, << "v", "e", "n", "d", "o", "r" >>, << ".", "g", "i", "t", "h", "u", "b" >> }

\* isImageFile of package git
isImageFile(filename) ==
  \E k \in 1..Len(ImageExtensions) : HasSuffix(ToLower(filename), ImageExtensions[k])

\* isLicenseFile of package git
isLicenseFile(filename) ==
  ToLower(filename) \in { << "l", "i", "c", "e", "n", "s", "e" >>, << "l", "i", "c", "e", "n", "s", "e", ".", "m", "d" >>, << "l", "i", "c", "e", "n", "s", "e", ".", "t", "x", "t" >>, << "c", "o", "p", "y", "i", "n", "g" >> }

InitWalk ==
  /\ \E chosen \in SUBSET WalkFiles :
       /\ inp = [kind |-> "walk", files |-> chosen]
       /\ walkLeft = WalkOf(chosen)
  /\ srcPath = Unset /\ outPath = Unset
  /\ filePath = Unset /\ content = Unset
  /\ linked = Unset /\ imaged = Unset /\ processed = Unset
  /\ hpc = "idle"
  /\ gitData = NewRepositoryData
  /\ contributors = <<>> /\ contributorsLeft = {}
  /\ gpc = "walk"
  /\ GeneratorIdle

\* The callback of filepath.WalkDir for a directory: the walk does not enter
\* .git, node_modules, vendor and .github.
VisitDir ==
  /\ gpc = "walk" /\ walkLeft # <<>> /\ Head(walkLeft).dir
  /\ LET path == Head(walkLeft).path
     IN walkLeft' = IF Base(path) \in SkippedDirs
                      THEN SelectSeq(Tail(walkLeft),
                                     LAMBDA e : ~HasPrefix(e.path, path \o Slash))
                    ELSE Tail(walkLeft)
  /\ UNCHANGED << gitData, contributors, contributorsLeft, gpc, hvars, gvars >>

\* repoData when the callback has handled the file at relativePath;
\* licenseRead tells whether os.ReadFile of a license file succeeded. The
\* license type is a function of the content of the file it is read from.
AfterFile(data, relativePath, licenseRead) ==
  LET name == Base(relativePath)
      readme == DesignatedReadme(data.ReadmePath, relativePath)
      withMarkdown ==
        IF isMarkdownFile(name)
          THEN [data EXCEPT
                  !.MarkdownFiles = Put(@, relativePath, FileContent(relativePath)),
                  !.ReadmePath = readme,
                  !.ReadmeContent = IF readme = relativePath
                                      THEN FileContent(relativePath) ELSE @]
        ELSE data
      withImage ==
        IF isImageFile(name)
          THEN [withMarkdown EXCEPT
                  !.ImageFiles = Put(@, relativePath, Join(<< RepoPath, relativePath >>))]
        ELSE withMarkdown
  IN IF isLicenseFile(name) /\ data.License = <<>> /\ licenseRead
       THEN [withImage EXCEPT !.License = [typeOf |-> relativePath]]
     ELSE withImage

\* The callback of filepath.WalkDir for a file.
VisitFile ==
  /\ gpc = "walk" /\ walkLeft # <<>> /\ ~Head(walkLeft).dir
  /\ \E licenseRead \in BOOLEAN :
       gitData' = AfterFile(gitData, Head(walkLeft).path, licenseRead)
  /\ walkLeft' = Tail(walkLeft)
  /\ UNCHANGED << contributors, contributorsLeft, gpc, hvars, gvars >>

\* The walk reports an error for an entry, or a markdown file cannot be read:
\* GetRepositoryData returns nil and the error.
WalkFails ==
  /\ gpc = "walk" /\ walkLeft # <<>>
  /\ gpc' = "failed"
  /\ UNCHANGED << gitData, contributors, contributorsLeft, walkLeft, hvars, gvars >>

\* The walk ends and GetRepositoryData returns repoData.
WalkEnds ==
  /\ gpc = "walk" /\ walkLeft = <<>>
  /\ gpc' = "returned"
  /\ UNCHANGED << gitData, contributors, contributorsLeft, walkLeft, hvars, gvars >>

NextWalk == VisitDir \/ VisitFile \/ WalkFails \/ WalkEnds

SpecWalk == InitWalk /\ [][NextWalk]_vars

(***************************************************************************)
(* Expected texts, built from the pieces of the inputs by concatenation    *)
(***************************************************************************)

\* "d1/d2/" for the directory elements <<d1, d2>>, and "" for the root.
DirPrefix(dirElems) == Concat([i \in 1..Len(dirElems) |-> dirElems[i] \o Slash])

\* "docs/<dir>/<sub><stem>.html"
DocsHtml(dirElems, sub, stem) == DocsDir \o Slash \o DirPrefix(dirElems) \o sub \o stem \o HtmlExt

\* The sentence of the drawn document around another occurrence.
Sentence(occurrence) == T_See \o occurrence \o T_now

IsExternal(t) == t.prefix \in ExternalPrefixes
IsAnchor(t) == t.prefix = Hash

\* The text of the target ends in a markdown extension / an image extension.
EndsInMarkdownExt(t) ==
  \/ t.anchor = <<>> /\ t.ext \in MarkdownExts
  \/ t.anchor = A_a_md
EndsInImageExt(t) == t.anchor = <<>> /\ t.ext \in ImageExts

D_docs_intro == << "d", "o", "c", "s", "/", "i", "n", "t", "r", "o", ".", "m", "d" >>
D_a_b_readme == << "a", "/", "b", "/", "r", "e", "a", "d", "m", "e", ".", "m", "d" >>
D_docs_sub_page == << "d", "o", "c", "s", "/", "s", "u", "b", "/", "p", "a", "g", "e", ".", "m", "d" >>

(***************************************************************************)
(* C1                                                                      *)
(***************************************************************************)

\* The matches of the link pattern in a text, from position i on.
RECURSIVE LinkMatchesFrom(_, _)
LinkMatchesFrom(s, i) ==
  IF i > Len(s) THEN <<>>
  ELSE LET m == LinkMatchAt(s, i)
       IN IF m.ok THEN << m >> \o LinkMatchesFrom(s, m.last + 1)
          ELSE LinkMatchesFrom(s, i + 1)

LinkMatches(s) == LinkMatchesFrom(s, 1)

\* A target without its #anchor.
StripAnchor(t) ==
  LET idx == IndexFrom(t, "#", 1) IN IF idx > 0 THEN Take(t, idx - 1) ELSE t

\* The file a relative reference denotes when it is followed from the page
\* stored at pagePath (paths relative to the output root).
Follow(pagePath, reference) == Clean(Dir(pagePath) \o Slash \o reference)

\* The non-overview documents whose page has been written.
WrittenDocs ==
  {A \in DOMAIN repoData.MarkdownFiles :
     /\ ~isReadmeFile(Base(A)) /\ A \notin pagesLeft
     /\ GetOutputPath(A, DocsDir) \in DOMAIN fs
     /\ fs[GetOutputPath(A, DocsDir)].kind = "doc"
     /\ fs[GetOutputPath(A, DocsDir)].source = A}

\* C1: for every markdown link of a non-overview document A, at any directory
\* depth, whose target resolves to another non-overview document B of the
\* snapshot, the rewritten target (prefixed with ../docs/), followed from the
\* file generateDocPage writes for A, denotes the file it writes for B.
C1_RewrittenLinksReachTheirPage ==
  pc \in {"docPages", "done"} =>
    \A A \in WrittenDocs :
      LET pageA == GetOutputPath(A, DocsDir)
          before == LinkMatches(repoData.MarkdownFiles[A])
          after == LinkMatches(fs[pageA].PageContent.html)
      IN /\ Len(after) = Len(before)
         /\ \A k \in 1..Len(before) :
              LET B == ResolveLinkPath(StripAnchor(before[k].target), Dir(A))
              IN ( /\ isMarkdownLink(StripAnchor(before[k].target))
                   /\ B \in DOMAIN repoData.MarkdownFiles
                   /\ B # A
                   /\ ~isReadmeFile(Base(B)) )
                 => Follow(pageA, StripAnchor(after[k].target)) = GetOutputPath(B, DocsDir)

(***************************************************************************)
(* C2                                                                      *)
(***************************************************************************)

EndToEndSnapshot == DOMAIN repoData.MarkdownFiles = { N_README_md, N_docs_a_md, N_docs_b_md }

T_B == << "B" >>

HasPage(path, source) ==
  path \in DOMAIN fs /\ fs[path].kind = "doc" /\ fs[path].source = source

\* C2 as stated: for the snapshot README.md, docs/a.md, docs/b.md the page of
\* docs/a.md is written at docs/a.html with the link target ../docs/b.html and
\* the page of docs/b.md at docs/b.html with the navigation title B.
C2_EndToEndFlatDocs ==
  (pc = "done" /\ EndToEndSnapshot) =>
    /\ HasPage(<< "d", "o", "c", "s", "/", "a", ".", "h", "t", "m", "l" >>, N_docs_a_md)
    /\ fs[<< "d", "o", "c", "s", "/", "a", ".", "h", "t", "m", "l" >>].PageContent = renderMarkdown(<< "#", " ", "A", "\n", "\n", "[", "b", "]", "(", ".", ".", "/", "d", "o", "c", "s", "/", "b", ".", "h", "t", "m", "l", ")" >>)
    /\ HasPage(<< "d", "o", "c", "s", "/", "b", ".", "h", "t", "m", "l" >>, N_docs_b_md)
    /\ \E i \in 1..Len(docsPages) :
         docsPages[i].Title = T_B /\ docsPages[i].Path = << "d", "o", "c", "s", "/", "b", ".", "h", "t", "m", "l" >>

\* C2, amended: for that snapshot the page of docs/a.md is written at
\* docs/docs/a.html with the link target ../docs/docs/b.html, and the page of
\* docs/b.md at docs/docs/b.html with the navigation title B; nothing is
\* written at docs/a.html or docs/b.html.
C2_EndToEndMirroredDocs ==
  (pc = "done" /\ EndToEndSnapshot) =>
    /\ HasPage(<< "d", "o", "c", "s", "/", "d", "o", "c", "s", "/", "a", ".", "h", "t", "m", "l" >>, N_docs_a_md)
    /\ fs[<< "d", "o", "c", "s", "/", "d", "o", "c", "s", "/", "a", ".", "h", "t", "m", "l" >>].PageContent = renderMarkdown(<< "#", " ", "A", "\n", "\n", "[", "b", "]", "(", ".", ".", "/", "d", "o", "c", "s", "/", "d", "o", "c", "s", "/", "b", ".", "h", "t", "m", "l", ")" >>)
    /\ HasPage(<< "d", "o", "c", "s", "/", "d", "o", "c", "s", "/", "b", ".", "h", "t", "m", "l" >>, N_docs_b_md)
    /\ \E i \in 1..Len(docsPages) :
         docsPages[i].Title = T_B /\ docsPages[i].Path = << "d", "o", "c", "s", "/", "d", "o", "c", "s", "/", "b", ".", "h", "t", "m", "l" >>
    /\ \E i \in 1..Len(fs[<< "d", "o", "c", "s", "/", "d", "o", "c", "s", "/", "b", ".", "h", "t", "m", "l" >>].DocsPages) :
         fs[<< "d", "o", "c", "s", "/", "d", "o", "c", "s", "/", "b", ".", "h", "t", "m", "l" >>].DocsPages[i]
           = [Title |-> T_B, Path |-> << "d", "o", "c", "s", "/", "d", "o", "c", "s", "/", "b", ".", "h", "t", "m", "l" >>, IsActive |-> TRUE]
    /\ << "d", "o", "c", "s", "/", "a", ".", "h", "t", "m", "l" >> \notin DOMAIN fs
    /\ << "d", "o", "c", "s", "/", "b", ".", "h", "t", "m", "l" >> \notin DOMAIN fs

C2_Witness ==
  /\ pc = "done" /\ EndToEndSnapshot
  /\ HasPage(<< "d", "o", "c", "s", "/", "d", "o", "c", "s", "/", "a", ".", "h", "t", "m", "l" >>, N_docs_a_md)
  /\ HasPage(<< "d", "o", "c", "s", "/", "d", "o", "c", "s", "/", "b", ".", "h", "t", "m", "l" >>, N_docs_b_md)

(***************************************************************************)
(* C3                                                                      *)
(***************************************************************************)

\* C3: GetOutputPath(sourcePath, "docs") is docs/<name>.html for a source path at
\* the snapshot root and docs/<d>/<name>.html for a source path under the
\* directory d (also when d is docs), <name> being the file name without its
\* last extension.
C3_OutputPathMirrorsSourceDir ==
  hpc = "GetOutputPath" =>
    /\ inp.dir = <<>> => outPath = DocsDir \o Slash \o inp.stem \o HtmlExt
    /\ outPath = DocsHtml(inp.dir, <<>>, inp.stem)

C3_Witness ==
  /\ hpc = "GetOutputPath"
  /\ srcPath = << "d", "o", "c", "s", "/", "i", "n", "t", "r", "o", ".", "m", "d" >>
  /\ outPath = << "d", "o", "c", "s", "/", "d", "o", "c", "s", "/", "i", "n", "t", "r", "o", ".", "h", "t", "m", "l" >>

(***************************************************************************)
(* C4                                                                      *)
(***************************************************************************)

\* C4: a markdown link whose target is a markdown-document path followed by a
\* #anchor suffix is rewritten to the .html output path of the document with
\* the same anchor reattached; [Guide](./guide.md#setup) inside docs/intro.md
\* becomes a link to ../docs/guide.html#setup.
C4_AnchoredLinkRewritten ==
  ( /\ hpc = "ProcessRelativeLinks"
    /\ ~inp.form.embed
    /\ inp.target.prefix = DotSlash
    /\ inp.target.ext \in MarkdownExts
    /\ inp.target.anchor = A_setup )
  => linked = Sentence(LinkSyntax(inp.form.text,
                UpDir \o DocsHtml(inp.dir, inp.target.sub, inp.target.stem)
                \o inp.target.anchor))

(***************************************************************************)
(* C5                                                                      *)
(***************************************************************************)

IsDotSlashMarkdown(t) ==
  t.prefix = DotSlash /\ t.ext \in MarkdownExts /\ t.anchor = <<>>

\* C5 as stated: ./x.md, resolved from a/b/readme.md, yields a/x.md.
C5_ResolvesAgainstParent ==
  ( /\ hpc = "ProcessRelativeLinks"
    /\ filePath = D_a_b_readme
    /\ ~inp.form.embed
    /\ TargetText(inp.target) = << ".", "/", "x", ".", "m", "d" >> )
  => /\ ResolveLinkPath(TargetText(inp.target), Dir(filePath)) = << "a", "/", "x", ".", "m", "d" >>
     /\ linked = Sentence(LinkSyntax(inp.form.text, << ".", ".", "/", "d", "o", "c", "s", "/", "a", "/", "x", ".", "h", "t", "m", "l" >>))

\* C5, amended: a ./ prefix is stripped and the remainder is joined against the
\* directory of the referencing document (no join at the root), so ./x.md
\* resolved from a/b/readme.md yields a/b/x.md and the link is rewritten to
\* ../docs/a/b/x.html.
C5_ResolvesAgainstOwnDir ==
  ( /\ hpc = "ProcessRelativeLinks"
    /\ ~inp.form.embed
    /\ IsDotSlashMarkdown(inp.target) )
  => /\ ResolveLinkPath(TargetText(inp.target), Dir(filePath))
          = DirPrefix(inp.dir) \o inp.target.sub \o inp.target.stem \o inp.target.ext
     /\ linked = Sentence(LinkSyntax(inp.form.text,
                   UpDir \o DocsHtml(inp.dir, inp.target.sub, inp.target.stem)))
     /\ filePath = D_a_b_readme /\ TargetText(inp.target) = << ".", "/", "x", ".", "m", "d" >>
          => ResolveLinkPath(TargetText(inp.target), Dir(filePath)) = << "a", "/", "b", "/", "x", ".", "m", "d" >>

C5_Witness ==
  /\ hpc = "ProcessRelativeLinks"
  /\ filePath = D_a_b_readme
  /\ content = << "S", "e", "e", " ", "[", "G", "u", "i", "d", "e", "]", "(", ".", "/", "x", ".", "m", "d", ")", " ", "n", "o", "w", "." >>
  /\ linked = << "S", "e", "e", " ", "[", "G", "u", "i", "d", "e", "]", "(", ".", ".", "/", "d", "o", "c", "s", "/", "a", "/", "b", "/", "x", ".", "h", "t", "m", "l", ")", " ", "n", "o", "w", "." >>

(***************************************************************************)
(* C6                                                                      *)
(***************************************************************************)

\* C6: a reference that starts with / is resolved from the repository root
\* whatever the directory of the referencing document: the slash is stripped,
\* nothing is joined, and /x.md is rewritten to ../docs/x.html.
C6_RootedLinkIgnoresDocDir ==
  ( /\ hpc = "ProcessRelativeLinks"
    /\ ~inp.form.embed
    /\ inp.target.prefix = Slash
    /\ inp.target.ext \in MarkdownExts
    /\ inp.target.anchor = <<>> )
  => /\ ResolveLinkPath(TargetText(inp.target), Dir(filePath))
          = inp.target.sub \o inp.target.stem \o inp.target.ext
     /\ linked = Sentence(LinkSyntax(inp.form.text,
                   UpDir \o DocsHtml(<<>>, inp.target.sub, inp.target.stem)))

C6_Witness ==
  /\ hpc = "ProcessRelativeLinks"
  /\ filePath = D_docs_sub_page
  /\ content = << "S", "e", "e", " ", "[", "G", "u", "i", "d", "e", "]", "(", "/", "x", ".", "m", "d", ")", " ", "n", "o", "w", "." >>
  /\ linked = << "S", "e", "e", " ", "[", "G", "u", "i", "d", "e", "]", "(", ".", ".", "/", "d", "o", "c", "s", "/", "x", ".", "h", "t", "m", "l", ")", " ", "n", "o", "w", "." >>

(***************************************************************************)
(* C7                                                                      *)
(***************************************************************************)

\* C7: a markdown link whose target starts with http/https or with #, and an
\* image embed whose target is an external URL, is left unchanged by the link
\* pass, by the image pass and by both in turn, whatever the document path.
C7_ExternalAndAnchorUnchanged ==
  LET link == ~inp.form.embed /\ (IsExternal(inp.target) \/ IsAnchor(inp.target))
      embed == inp.form.embed /\ IsExternal(inp.target)
  IN /\ (hpc = "ProcessRelativeLinks" /\ (link \/ embed)) => linked = content
     /\ (hpc = "processImageLinks" /\ (link \/ embed)) => imaged = content
     /\ (hpc = "generateDocPage" /\ (link \/ embed)) => processed = content

C7_Witness ==
  /\ hpc = "generateDocPage"
  /\ filePath = D_docs_sub_page
  /\ content = << "S", "e", "e", " ", "[", "G", "u", "i", "d", "e", "]", "(", "#", "x", ".", "m", "d", ")", " ", "n", "o", "w", "." >>
  /\ processed = content

(***************************************************************************)
(* C8                                                                      *)
(***************************************************************************)

\* The final path component of a drawn target: its file name, and the whole
\* target when it holds no slash.
FinalComponent(t) ==
  (IF t.prefix = Hash /\ t.sub = <<>> THEN Hash ELSE <<>>) \o t.stem \o t.ext \o t.anchor

\* C8: the image pass rewrites every embed ![alt](target) with a non-external
\* target to ![alt](../images/<filename>), <filename> being the final path
\* component of the target, with the alt text kept; ![diagram](../assets/d.png)
\* inside docs/sub/page.md becomes ![diagram](../images/d.png).  In
\* generateDocPage the same holds of the two passes in turn for the targets
\* with an image extension.
C8_EmbedFlattenedIntoImages ==
  LET expected == Sentence(ImageSyntax(inp.form.text, UpImages \o FinalComponent(inp.target)))
  IN /\ (hpc = "processImageLinks" /\ inp.form.embed /\ ~IsExternal(inp.target))
          => imaged = expected
     /\ ( /\ hpc = "generateDocPage" /\ inp.form.embed /\ ~IsExternal(inp.target)
          /\ EndsInImageExt(inp.target) )
          => processed = expected

C8_Witness ==
  /\ hpc = "processImageLinks"
  /\ filePath = D_docs_sub_page
  /\ content = << "S", "e", "e", " ", "!", "[", "d", "i", "a", "g", "r", "a", "m", "]", "(", ".", ".", "/", "a", "s", "s", "e", "t", "s", "/", "d", ".", "p", "n", "g", ")", " ", "n", "o", "w", "." >>
  /\ imaged = << "S", "e", "e", " ", "!", "[", "d", "i", "a", "g", "r", "a", "m", "]", "(", ".", ".", "/", "i", "m", "a", "g", "e", "s", "/", "d", ".", "p", "n", "g", ")", " ", "n", "o", "w", "." >>

(***************************************************************************)
(* C9                                                                      *)
(***************************************************************************)

\* C9: the link pass leaves unchanged every link [text](target) whose target
\* ends in an image extension and every link whose target is neither external,
\* nor an anchor, nor ends in a markdown extension (.md, .markdown, .mdown,
\* .mkdn, in any case); a link it rewrites has a target that ends in a markdown
\* extension, and it rewrites the relative ones that do.
C9_OnlyMarkdownTargetsRewritten ==
  hpc = "ProcessRelativeLinks" =>
    /\ EndsInImageExt(inp.target) => linked = content
    /\ ~EndsInMarkdownExt(inp.target) => linked = content
    /\ linked # content => EndsInMarkdownExt(inp.target)
    /\ ( /\ ~inp.form.embed /\ EndsInMarkdownExt(inp.target)
         /\ ~IsExternal(inp.target) /\ ~IsAnchor(inp.target) ) => linked # content

C9_Witness ==
  /\ hpc = "ProcessRelativeLinks"
  /\ content = << "S", "e", "e", " ", "[", "G", "u", "i", "d", "e", "]", "(", ".", "/", "x", ".", "J", "P", "G", ")", " ", "n", "o", "w", "." >>
  /\ linked = content


(***************************************************************************)
(* C10                                                                     *)
(***************************************************************************)

T_A == << "A" >>
T_Guide_title == T_Guide
T_apple == << "a", "p", "p", "l", "e" >>

\* The navigation entry each document of the universe gives: its title and
\* its output path.
ExpectedEntry(path) ==
  IF path = N_a_markdown THEN DocPage(T_Guide_title, << "d", "o", "c", "s", "/", "a", ".", "h", "t", "m", "l" >>)
  ELSE IF path = N_a_md THEN DocPage(T_apple, << "d", "o", "c", "s", "/", "a", ".", "h", "t", "m", "l" >>)
  ELSE IF path = N_docs_a_md THEN DocPage(T_A, << "d", "o", "c", "s", "/", "d", "o", "c", "s", "/", "a", ".", "h", "t", "m", "l" >>)
  ELSE IF path = N_docs_b_md THEN DocPage(T_B, << "d", "o", "c", "s", "/", "d", "o", "c", "s", "/", "b", ".", "h", "t", "m", "l" >>)
  ELSE DocPage(T_Guide_title, << "d", "o", "c", "s", "/", "g", "u", "i", "d", "e", ".", "h", "t", "m", "l" >>)

NavDocs == DOMAIN repoData.MarkdownFiles \ { N_README_md, N_sub_README_md }

\* C10: after SortDocPagesByTitle the navigation sequence is a permutation of
\* the entries built from the snapshot (each entry occurs as often as documents
\* give it) and its titles are non-decreasing in byte order, whatever the order
\* in which the map iteration delivered the documents.
C10_NavigationSortedPermutation ==
  pc \in {"mainPage", "docPages", "done"} =>
    /\ Len(docsPages) = Cardinality(NavDocs)
    /\ \A p \in NavDocs :
         Cardinality({i \in 1..Len(docsPages) : docsPages[i] = ExpectedEntry(p)})
           = Cardinality({q \in NavDocs : ExpectedEntry(q) = ExpectedEntry(p)})
    /\ \A i \in 1..(Len(docsPages) - 1) :
         ~StrLess(docsPages[i + 1].Title, docsPages[i].Title)

C10_Witness ==
  /\ pc = "mainPage"
  /\ Len(docsPages) = 3
  /\ docsPages[1].Title = T_A /\ docsPages[2].Title = T_B /\ docsPages[3].Title = T_apple

(***************************************************************************)
(* C11                                                                     *)
(***************************************************************************)

\* The documentation pages in the output directory.
DocPagesWritten == {p \in DOMAIN fs : fs[p].kind = "doc"}

\* The positions of the navigation of a page that are flagged active.
ActiveEntries(page) == {i \in 1..Len(page.DocsPages) : page.DocsPages[i].IsActive}

\* C11: the navigation of every documentation page written by generateDocPage
\* has exactly one entry flagged active, and the path of that entry is the
\* output path of the page, also when two documents of the snapshot differ
\* only by their markdown extension.
C11_ExactlyOneActiveEntry ==
  \A p \in DocPagesWritten :
    /\ Cardinality(ActiveEntries(fs[p])) = 1
    /\ \A i \in ActiveEntries(fs[p]) : fs[p].DocsPages[i].Path = p


(***************************************************************************)
(* C12                                                                     *)
(***************************************************************************)

\* No entry of the canonical navigation sequence is flagged active.
CanonicalInactive == \A i \in 1..Len(docsPages) : ~docsPages[i].IsActive

\* The overview page, once written, has no active entry.
OverviewHasNoActiveEntry ==
  (N_index_html \in DOMAIN fs /\ fs[N_index_html].kind = "main")
    => ActiveEntries(fs[N_index_html]) = {}

\* The entries a page shows as active are entries of its own path, and apart
\* from the flags its navigation is the canonical sequence.
NoForeignActiveFlag ==
  \A p \in DocPagesWritten :
    /\ \A i \in ActiveEntries(fs[p]) : fs[p].DocsPages[i].Path = p
    /\ Len(fs[p].DocsPages) = Len(docsPages)
    /\ \A i \in 1..Len(docsPages) :
         [fs[p].DocsPages[i] EXCEPT !.IsActive = FALSE] = docsPages[i]

\* C12: in every state of a run the canonical navigation sequence has no
\* active entry; rendering a documentation page leaves the canonical sequence
\* (entries, order, flags) as it was; the overview page has no active entry
\* and no page shows the active flag of another page.
C12_CanonicalSequenceNeverActive ==
  /\ [](CanonicalInactive /\ OverviewHasNoActiveEntry /\ NoForeignActiveFlag)
  /\ [][pc = "docPages" => docsPages' = docsPages]_vars

C12_Witness ==
  /\ pc = "done"
  /\ Len(docsPages) = 2
  /\ Cardinality(DocPagesWritten) = 2
  /\ \A p \in DocPagesWritten : Cardinality(ActiveEntries(fs[p])) = 1
  /\ N_index_html \in DOMAIN fs

(***************************************************************************)
(* C13                                                                     *)
(***************************************************************************)

\* The documents of the snapshot other than the designated overview document.
NonOverviewDocs == DOMAIN repoData.MarkdownFiles \ {repoData.ReadmePath}

\* The navigation entries with the output path of the document d.
EntriesOf(d) == {i \in 1..Len(docsPages) : docsPages[i].Path = GetOutputPath(d, DocsDir)}

\* C13: when GenerateSite has returned, every document of the snapshot other
\* than the designated overview document (readmePath) has its navigation entry
\* (one entry per document with its output path) and its page under docs/; a
\* README.md of a subdirectory that is not the overview document has them too.
C13_EveryNonOverviewDocHasEntryAndPage ==
  pc = "done" =>
    \A d \in NonOverviewDocs :
      /\ Cardinality(EntriesOf(d))
           = Cardinality({e \in NonOverviewDocs :
                            GetOutputPath(e, DocsDir) = GetOutputPath(d, DocsDir)})
      /\ GetOutputPath(d, DocsDir) \in DocPagesWritten

(***************************************************************************)
(* C14                                                                     *)
(***************************************************************************)

\* The keys of the two maps in the order of the walk: one of the orders the
\* map iteration may deliver them in.
DocsInWalkOrder ==
  SelectSeq([i \in 1..Len(DocUniverse) |-> DocUniverse[i].path],
            LAMBDA p : p \in DOMAIN repoData.MarkdownFiles /\ ~isReadmeFile(Base(p)))
ImagesInWalkOrder ==
  SelectSeq(ImageUniverse, LAMBDA p : p \in DOMAIN repoData.ImageFiles)

\* The navigation of the run that iterates in walk order.
WalkOrderNavigation ==
  SortDocPagesByTitle(
    [i \in 1..Len(DocsInWalkOrder) |->
       DocPage(TitleOf(DocsInWalkOrder[i], repoData.MarkdownFiles[DocsInWalkOrder[i]]),
               GetOutputPath(DocsInWalkOrder[i], DocsDir))])

\* The files of the run that iterates in walk order, after its first i images
\* and after its first i pages.
RECURSIVE WalkOrderImages(_)
WalkOrderImages(i) ==
  IF i = 0 THEN Put(<<>>, N_style_css, [kind |-> "style"])
  ELSE Put(WalkOrderImages(i - 1),
           Join(<< N_images, Base(ImagesInWalkOrder[i]) >>),
           [kind |-> "image", from |-> repoData.ImageFiles[ImagesInWalkOrder[i]]])

RECURSIVE WalkOrderPages(_)
WalkOrderPages(i) ==
  IF i = 0
    THEN Put(WalkOrderImages(Len(ImagesInWalkOrder)), N_index_html,
             [MainPageData EXCEPT !.DocsPages = WalkOrderNavigation])
  ELSE Put(WalkOrderPages(i - 1),
           GetOutputPath(DocsInWalkOrder[i], DocsDir),
           DocPageData(DocsInWalkOrder[i], repoData.MarkdownFiles[DocsInWalkOrder[i]],
                       WalkOrderNavigation))

\* C14: generation is a function of the snapshot: whatever the iteration
\* orders of the two maps, a run that returns has produced the files, the
\* navigation order and the structure summary of the run that iterates in walk
\* order, also when two documents have equal titles.
C14_OutputIndependentOfIterationOrder ==
  pc = "done" =>
    /\ docsPages = WalkOrderNavigation
    /\ fs = WalkOrderPages(Len(DocsInWalkOrder))
    /\ result.SiteStructure = SiteStructure(WalkOrderNavigation, Len(ImagesInWalkOrder))

(***************************************************************************)
(* C15                                                                     *)
(***************************************************************************)

\* The emails of the contributors list.
ListedEmails == {gitData.Contributors[i].Email : i \in 1..Len(gitData.Contributors)}

\* C15: the contributors list GetRepositoryData returns has at most 5 entries,
\* is sorted by non-increasing commit count, and consists of the contributors
\* with the highest commit counts among the distinct author emails of the
\* history: each entry is one author with the commits counted for it, no
\* author is listed twice, as many are listed as there are authors up to 5,
\* and no author left out has more commits than a listed one.
C15_TopContributorsSorted ==
  gpc = "walk" =>
    LET cs == gitData.Contributors
    IN /\ Len(cs) <= 5
       /\ \A i \in 1..(Len(cs) - 1) : cs[i].Commits >= cs[i + 1].Commits
       /\ \A i \in 1..Len(cs) :
            cs[i].Email \in DOMAIN contributors /\ cs[i] = contributors[cs[i].Email]
       /\ Cardinality(ListedEmails) = Len(cs)
       /\ Len(cs) = IF Len(contributors) > 5 THEN 5 ELSE Len(contributors)
       /\ \A e \in DOMAIN contributors \ ListedEmails :
            \A i \in 1..Len(cs) : contributors[e].Commits <= cs[i].Commits

\* Six authors, the one met last with the most commits: it heads the list and
\* an author with a single commit is left out.
C15_Witness ==
  /\ gpc = "walk"
  /\ Len(contributors) = 6
  /\ contributors[6].Commits = 3
  /\ Len(gitData.Contributors) = 5
  /\ gitData.Contributors[1].Email = 6


(***************************************************************************)
(* C16                                                                     *)
(***************************************************************************)

\* C16: contributors with equal commit counts are listed in the order in
\* which the history first met them (emails are named by that order), and
\* among authors with equal counts the ones met first survive the truncation
\* to 5, whatever the iteration order of the map.
C16_TiesInFirstEncounteredOrder ==
  gpc = "walk" =>
    LET cs == gitData.Contributors
    IN /\ \A i, j \in 1..Len(cs) :
            (i < j /\ cs[i].Commits = cs[j].Commits) => cs[i].Email < cs[j].Email
       /\ \A e \in DOMAIN contributors \ ListedEmails :
            \A i \in 1..Len(cs) :
              cs[i].Commits = contributors[e].Commits => cs[i].Email < e

(***************************************************************************)
(* C17                                                                     *)
(***************************************************************************)

\* C17: when a step of GenerateSite fails (creating a directory, writing
\* style.css, parsing the templates, copying an image, the overview page, a
\* documentation page) GenerateSite returns an error and no GenerationResult,
\* and from the failing step on no image is copied and no page is rendered or
\* written; a run that returns a result has no error.
C17_FailureAbortsRun ==
  /\ [](err # NoError => (pc = "failed" /\ result = NilResult))
  /\ [](pc = "failed" => err # NoError)
  /\ [](pc = "done" => (err = NoError /\ result # NilResult))
  /\ [][err # NoError => UNCHANGED << fs, dirs, result, err, docsPages,
                                      imagesLeft, navLeft, pagesLeft >>]_vars

\* The second of three documentation pages failed to be written: one page is
\* there and two documents are left.
C17_Witness ==
  /\ pc = "failed"
  /\ err = "failed to write"
  /\ result = NilResult
  /\ Cardinality(DocPagesWritten) = 1
  /\ Cardinality(pagesLeft) = 2

(***************************************************************************)
(* C18                                                                     *)
(***************************************************************************)

\* C18: each page writes a distinct path: generateDocPage writes the pages of
\* two distinct non-overview documents to different files, so a file written
\* earlier in the run (a documentation page, index.html, style.css) is never
\* written again.
C18_PagesWriteDistinctPaths ==
  [][\A p \in DOMAIN fs :
       fs[p].kind \in {"doc", "main", "style"} => fs'[p] = fs[p]]_vars

(***************************************************************************)
(* C19                                                                     *)
(***************************************************************************)

\* The files the walk of the drawn repository visits: the files chosen that
\* are not under a directory the walk does not enter.
FilesWalked ==
  {i \in inp.files : ~HasPrefix(WalkUniverse[i].path, << "v", "e", "n", "d", "o", "r", "/" >>)}

\* The README.* markdown files the walk has visited so far, as positions of
\* the walk order.
ReadmesVisited ==
  {i \in FilesWalked :
     /\ WalkUniverse[i].readme
     /\ \A k \in 1..Len(walkLeft) : walkLeft[k].path # WalkUniverse[i].path}

\* The first of them in the walk order, or none.
FirstReadmeVisited ==
  IF ReadmesVisited = {} THEN <<>>
  ELSE WalkUniverse[CHOOSE i \in ReadmesVisited : \A k \in ReadmesVisited : i <= k].path

\* C19 as stated: the overview document is the first README.* markdown file
\* the walk has met, and a README met later never replaces a designated one.
C19_FirstReadmeStays ==
  /\ [](gpc \in {"walk", "returned"} => gitData.ReadmePath = FirstReadmeVisited)
  /\ [][gitData.ReadmePath # <<>> => gitData.ReadmePath' = gitData.ReadmePath]_vars

\* C19 amended: the overview document is README.md of the repository root
\* when the walk has met it, and otherwise the first README.* markdown file
\* the walk has met; its content is the overview content, and a designated
\* overview document is replaced only by README.md of the root.
C19_RootReadmePreferred ==
  /\ [](gpc \in {"walk", "returned"} =>
          /\ gitData.ReadmePath =
               IF N_README_md \in {WalkUniverse[i].path : i \in ReadmesVisited}
                 THEN N_README_md ELSE FirstReadmeVisited
          /\ gitData.ReadmeContent =
               IF gitData.ReadmePath = <<>> THEN <<>> ELSE FileContent(gitData.ReadmePath))
  /\ [][(gitData.ReadmePath # <<>> /\ gitData.ReadmePath' # gitData.ReadmePath)
          => gitData.ReadmePath' = N_README_md]_vars

\* README.markdown was met first and designated, README.md of the root met
\* behind it has replaced it.
C19_Witness ==
  /\ gpc = "returned"
  /\ N_README_markdown \in DOMAIN gitData.MarkdownFiles
  /\ N_Docs_README_md \in DOMAIN gitData.MarkdownFiles
  /\ gitData.ReadmePath = N_README_md

(***************************************************************************)
(* C20                                                                     *)
(***************************************************************************)

\* The place of a position of GenerateSite in the order of its steps.
StepRank(p) ==
  CASE p = "mkdirDocs" -> 1 [] p = "writeStyle" -> 2 [] p = "mkdirImages" -> 3
    [] p = "parseTemplates" -> 4 [] p = "copyImages" -> 5 [] p = "buildNav" -> 6
    [] p = "mainPage" -> 7 [] p = "docPages" -> 8 [] p = "done" -> 9
    [] p = "failed" -> 10

\* The files under images/ and under docs/ in the output directory, whole or
\* truncated.
FilesUnder(dir) == {p \in DOMAIN fs : HasPrefix(p, dir \o Slash)}

\* The documents both loops of GenerateSite handle.
RenderedDocs == {d \in DOMAIN repoData.MarkdownFiles : ~isReadmeFile(Base(d))}

\* C20: the steps of GenerateSite occur in this order: docs/ and images/ exist
\* before an image is copied; every image copy precedes the navigation build;
\* the navigation is built and sorted once, before any page is rendered, and
\* does not change afterwards; index.html is written before any documentation
\* page; the structure summary is assembled when every documentation page has
\* been written. No step is gone back to.
C20_StepsInOrder ==
  /\ [](FilesUnder(N_images) # {} => {DocsDir, N_images} \subseteq dirs)
  /\ []((navLeft # {} \/ docsPages # <<>> \/ StepRank(pc) \in 6..9) => imagesLeft = {})
  /\ [](N_index_html \in DOMAIN fs =>
          /\ navLeft = {}
          /\ Len(docsPages) = Cardinality(RenderedDocs)
          /\ \A i \in 1..(Len(docsPages) - 1) :
               ~StrLess(docsPages[i + 1].Title, docsPages[i].Title))
  /\ [](FilesUnder(DocsDir) # {} =>
          (N_index_html \in DOMAIN fs /\ fs[N_index_html].kind = "main"))
  /\ [](pc = "done" =>
          /\ result.SiteStructure # <<>>
          /\ pagesLeft = {}
          /\ \A d \in RenderedDocs : GetOutputPath(d, DocsDir) \in DocPagesWritten)
  /\ [](StepRank(pc) < 9 => result.SiteStructure = <<>>)
  /\ [][docsPages' # docsPages =>
          (pc = "buildNav" /\ N_index_html \notin DOMAIN fs /\ FilesUnder(DocsDir) = {})]_vars
  /\ [][StepRank(pc') >= StepRank(pc)]_vars

\* A run has returned with two images copied, the overview page and two
\* documentation pages written and the summary made.
C20_Witness ==
  /\ pc = "done"
  /\ Cardinality(FilesUnder(N_images)) = 2
  /\ Cardinality(DocPagesWritten) = 2
  /\ Len(docsPages) = 2
  /\ result.SiteStructure # <<>>

(***************************************************************************)
(* C21                                                                     *)
(***************************************************************************)

\* C21: the two rewriting passes never both process the same occurrence: the
\* link pass leaves every embed ![alt](target) as it is, also one whose target
\* ends in a markdown extension, so that the text generateDocPage renders for
\* an embed is what the image pass alone makes of it.
C21_EmbedRewrittenByImagePassOnly ==
  /\ (hpc = "ProcessRelativeLinks" /\ inp.form.embed) => linked = content
  /\ (hpc = "generateDocPage" /\ inp.form.embed)
       => processed = processImageLinks(content, filePath)

(***************************************************************************)
(* C22                                                                     *)
(***************************************************************************)

TemplateErrors == {"failed to execute main template", "failed to execute doc template"}

\* C22: a failing template execution leaves no partial page: the step in
\* which the template of a page (overview or documentation) fails creates and
\* changes no file and no directory of the output, and a failed overview
\* template leaves no index.html at all.
C22_TemplateFailureWritesNothing ==
  /\ [][err' \in TemplateErrors => (fs' = fs /\ dirs' = dirs)]_vars
  /\ [](err = "failed to execute main template" => N_index_html \notin DOMAIN fs)

\* The template failed for a documentation page: the page written before is
\* there and nothing else under docs/.
C22_Witness ==
  /\ pc = "failed"
  /\ err = "failed to execute doc template"
  /\ Cardinality(pagesLeft) = 2
  /\ Cardinality(FilesUnder(DocsDir)) = 1
  /\ DocPagesWritten = FilesUnder(DocsDir)

(***************************************************************************)
(* C23                                                                     *)
(***************************************************************************)

\* The lines of a summary between its docs/ line and its images/ line, and
\* the lines behind its images/ line.
DocsLines(s) ==
  LET k == CHOOSE i \in 1..Len(s) : s[i].line = "images/" IN SubSeq(s, 4, k - 1)
ImagesLines(s) ==
  LET k == CHOOSE i \in 1..Len(s) : s[i].line = "images/" IN SubSeq(s, k + 1, Len(s))

\* C23: on a successful run documentCount is the number of navigation entries
\* and of documentation pages rendered; imageCount is the number of entries
\* of the images mapping of the snapshot, also when images share a base name
\* and give fewer files under images/; the summary has one docs/ line per
\* navigation entry, in navigation order, and reports images/ as "(empty)"
\* exactly when imageCount is 0.
C23_ResultCountsAndSummary ==
  pc = "done" =>
    LET s == result.SiteStructure
    IN /\ result.DocsCount = Len(docsPages)
       /\ result.DocsCount = Cardinality(RenderedDocs)
       /\ result.ImagesCount = Cardinality(DOMAIN repoData.ImageFiles)
       /\ s[3].line = "docs/"
       /\ IF Len(docsPages) = 0 THEN DocsLines(s) = << [line |-> "(empty)"] >>
          ELSE /\ Len(DocsLines(s)) = Len(docsPages)
               /\ \A i \in 1..Len(docsPages) :
                    /\ DocsLines(s)[i].line = "page"
                    /\ DocsLines(s)[i].name = Base(docsPages[i].Path)
       /\ Len(ImagesLines(s)) = 1
       /\ (ImagesLines(s)[1].line = "(empty)") <=> (result.ImagesCount = 0)
       /\ result.ImagesCount > 0 =>
            ImagesLines(s)[1] = [line |-> "files", count |-> result.ImagesCount]

\* Two images that share a base name were copied and two pages rendered.
C23_Witness ==
  /\ pc = "done"
  /\ result.ImagesCount = 2
  /\ Cardinality(FilesUnder(N_images)) = 1
  /\ result.DocsCount = 2
  /\ Len(DocsLines(result.SiteStructure)) = 2

(***************************************************************************)
(* C24                                                                     *)
(***************************************************************************)

N_images_logo_png == << "i", "m", "a", "g", "e", "s", "/", "l", "o", "g", "o", ".", "p", "n", "g" >>
N_assets_logo_png == << "a", "s", "s", "e", "t", "s", "/", "l", "o", "g", "o", ".", "p", "n", "g" >>
N_img_logo_png == << "i", "m", "g", "/", "l", "o", "g", "o", ".", "p", "n", "g" >>

\* C24: images with the same file name in different source directories are
\* copied to the same images/<basename>: every copy leaves at that destination
\* the whole content of the image just copied, whatever was there, so that
\* after the run the file holds the image copied second; the collision raises
\* no error.
C24_LastCopiedImageWins ==
  /\ [][(pc = "copyImages" /\ imagesLeft' # imagesLeft) =>
          /\ err' = NoError
          /\ \A rel \in imagesLeft \ imagesLeft' :
               /\ Join(<< N_images, Base(rel) >>) \in DOMAIN fs'
               /\ fs'[Join(<< N_images, Base(rel) >>)] =
                    [kind |-> "image", from |-> repoData.ImageFiles[rel]]]_vars
  /\ [](pc = "done" =>
          /\ err = NoError
          /\ \A rel \in DOMAIN repoData.ImageFiles :
               /\ Join(<< N_images, Base(rel) >>) \in DOMAIN fs
               /\ fs[Join(<< N_images, Base(rel) >>)].kind = "image"
               /\ \E other \in DOMAIN repoData.ImageFiles :
                    /\ Base(other) = Base(rel)
                    /\ fs[Join(<< N_images, Base(rel) >>)].from = repoData.ImageFiles[other])

\* Both logo.png were copied, the one of assets/ second: images/logo.png holds
\* it and the run has returned without error.
C24_Witness ==
  /\ pc = "done" /\ err = NoError
  /\ DOMAIN repoData.ImageFiles = {N_assets_logo_png, N_img_logo_png}
  /\ FilesUnder(N_images) = {N_images_logo_png}
  /\ fs[N_images_logo_png] = [kind |-> "image", from |-> RepoPath \o Slash \o N_assets_logo_png]
  /\ result.ImagesCount = 2

(***************************************************************************)
(* C25                                                                     *)
(***************************************************************************)

\* C25: every operation is attempted exactly once per run: when GenerateSite
\* has returned a result, each image of the snapshot was copied once, the
\* overview page was written once and each document other than the overview
\* document was rendered and written once (DocsCount counts the calls of
\* generateDocPage that returned); in no run is an operation gone back to: a
\* key a loop has handled is not handled again and a written overview page is
\* not written again.
C25_EveryOperationOnce ==
  /\ [](pc = "done" =>
          /\ result.ImagesCount = Cardinality(DOMAIN repoData.ImageFiles)
          /\ imagesLeft = {} /\ pagesLeft = {}
          /\ N_index_html \in DOMAIN fs /\ fs[N_index_html].kind = "main"
          /\ result.DocsCount = Cardinality(NonOverviewDocs)
          /\ \A d \in NonOverviewDocs : GetOutputPath(d, DocsDir) \in DocPagesWritten)
  /\ [][/\ pc = "copyImages" => imagesLeft' \subseteq imagesLeft
        /\ pc = "docPages" => pagesLeft' \subseteq pagesLeft
        /\ N_index_html \in DOMAIN fs =>
             (N_index_html \in DOMAIN fs' /\ fs'[N_index_html] = fs[N_index_html])
        /\ pc = "failed" => UNCHANGED << fs, dirs, imagesLeft, pagesLeft >>]_vars

(***************************************************************************)
(* C26                                                                     *)
(***************************************************************************)

\* The path elements of a target.
Segments(t) == SplitOn(t, "/")

\* C26: every target the link pass rewrites begins with ../docs/ and has no
\* further .. segment, whatever the directory of the document and however
\* many ../ the target starts with (../../x.md inside a/doc.md included), so
\* that a rewritten link stays under docs/.
C26_RewrittenLinkStaysUnderDocs ==
  (hpc = "ProcessRelativeLinks" /\ linked # content) =>
    \A k \in 1..Len(LinkMatches(linked)) :
      LET t == LinkMatches(linked)[k].target
      IN /\ HasPrefix(t, UpDir \o DocsDir \o Slash)
         /\ \A n \in 2..Len(Segments(t)) : Segments(t)[n] # DotDot

(***************************************************************************)
(* C27                                                                     *)
(***************************************************************************)

\* The output paths of the entries of a navigation sequence.
PathsOf(pages) == {pages[i].Path : i \in 1..Len(pages)}

\* C27: when GenerateSite has returned a result, the output paths of the
\* navigation entries are the files generateDocPage has written under docs/:
\* every entry, on the overview page and on every documentation page, points
\* at a page that is there, and every page written is in the navigation.
C27_NavigationMatchesPages ==
  pc = "done" =>
    /\ PathsOf(docsPages) = DocPagesWritten
    /\ DocPagesWritten = FilesUnder(DocsDir)
    /\ PathsOf(fs[N_index_html].DocsPages) = DocPagesWritten
    /\ \A p \in DocPagesWritten :
         /\ PathsOf(fs[p].DocsPages) = DocPagesWritten
         /\ fs[p].CurrentPage = p

\* A run has returned with three navigation entries, two of them for the one
\* page docs/a.html.
C27_Witness ==
  /\ pc = "done"
  /\ Len(docsPages) = 3
  /\ Cardinality(DocPagesWritten) = 2
  /\ << "d", "o", "c", "s", "/", "a", ".", "h", "t", "m", "l" >> \in DocPagesWritten
  /\ Cardinality(EntriesOf(N_a_md)) = 2

=============================================================================
